---- MODULE Spec2Model ----
(***************************************************************************)
(* DupliScan: the resumable scan pipeline of dupliscan_cli.main, the two   *)
(* resumable scanners of dupliscan/core/scanner.py, the duplicate index of *)
(* dupliscan/core/duplicate_detector.py and the checkpoint file of         *)
(* dupliscan/core/state_manager.py.                                        *)
(*                                                                         *)
(* One process (one invocation of main) runs at a time; between            *)
(* invocations only the checkpoint file and the directory tree persist.    *)
(***************************************************************************)
EXTENDS Integers, Sequences, FiniteSets, TLC

\* ------------------------------------------------------------------ bounds
\* Number of directory entries os.walk can return for the scan root.
MaxPaths == 3
\* Number of unexpected exceptions that may escape a phase step in a behaviour.
MaxFaults == 1
\* Number of times the directory of the checkpoint file changes what it allows.
MaxStoreChanges == 1
\* Length of the longest list of records find_duplicates is called with.
MaxFiles == 4
\* Length of the longest list in a state given to save_scan_state directly.
MaxListLen == 2
\* Number of changes of the directory tree between invocations.
MaxFsChanges == 1
\* Length of the longest byte sequence fingerprinted, and the largest block
\* size the two fingerprint functions are called with (65536 by default).
MaxBytes == 4
MaxBlockSize == 2
\* Number of entries of the longest archive _scan_single_zip_archive is called with.
MaxEntries == 3

\* ------------------------------------------------------------ the file system
\* Python's None, for the optional string fields.
None == "None"

\* The scan root that exists, and a command-line argument naming no directory.
Root == "/r"
NoDir == "/nodir"
Dirs == {Root, NoDir}
Outputs == {"report.html"}
\* The same with a second report destination, for runs whose command line
\* differs from the one that created the checkpoint.
AllOutputs == {"report.html", "other.html"}

\* The entries os.walk yields under Root, in walk order.
PathNames == <<"/r/a.txt", "/r/b.zip", "/r/c.zip", "/r/d.txt", "/r/e.zip">>
PathIds == 1..MaxPaths
Paths == {PathNames[n] : n \in PathIds}

\* os.path.splitext(name)[1].lower() or None, for the names of the model.
SplitExt(name) ==
  IF name \in {"/r/a.txt", "/r/d.txt", "x.txt", "y.txt", "z.txt", "w.txt"} THEN ".txt"
  ELSE IF name \in {"/r/b.zip", "/r/c.zip", "/r/e.zip"} THEN ".zip"
  ELSE None

\* One entry of an archive: a directory entry, a member that reads, or a
\* member whose read raises.
Member(name, h, sz) == [filename |-> name, is_dir |-> FALSE, reads |-> TRUE, content |-> h, file_size |-> sz]
BadMember(name) == [filename |-> name, is_dir |-> FALSE, reads |-> FALSE, content |-> None, file_size |-> 0]
\* A member that reads, but whose fingerprint comes back as None.
UnhashedMember(name) == [filename |-> name, is_dir |-> FALSE, reads |-> TRUE, content |-> None, file_size |-> 1]
DirEntry(name) == [filename |-> name, is_dir |-> TRUE, reads |-> TRUE, content |-> None, file_size |-> 0]

\* What a path of the tree can be.  exists: os.walk lists it; access:
\* os.access(path, R_OK); islink: os.path.islink; content: the digest of its
\* bytes (None when reading raises IOError); is_zipfile: zipfile.is_zipfile;
\* opens: zipfile.ZipFile() and infolist() succeed; entries: infolist().
Absent == [exists |-> FALSE, access |-> FALSE, islink |-> FALSE, content |-> None,
           size |-> 0, is_zipfile |-> FALSE, opens |-> FALSE, entries |-> <<>>]
Regular(h, sz) == [Absent EXCEPT !.exists = TRUE, !.access = TRUE, !.content = h, !.size = sz]
Unreadable == [Absent EXCEPT !.exists = TRUE]
SymLink == [Regular("h1", 1) EXCEPT !.islink = TRUE]
\* A symbolic link whose target is missing or cannot be read: os.access
\* follows the link and fails, os.path.islink looks at the link itself.
DanglingLink == [Absent EXCEPT !.exists = TRUE, !.islink = TRUE]
HashFails == Regular(None, 1)
Archive(h, es) == [Regular(h, 2) EXCEPT !.is_zipfile = TRUE, !.opens = TRUE, !.entries = es]
BrokenArchive == [Regular("hC", 2) EXCEPT !.is_zipfile = TRUE]

ZipA == Archive("hA", <<Member("x.txt", "h1", 1), Member("y.txt", "h2", 1)>>)
ZipB == Archive("hB", <<DirEntry("d/"), Member("x.txt", "h1", 1), BadMember("w.txt"),
                        Member("z.txt", "h2", 1)>>)

\* Every tree whose paths are each one of these.
TxtKinds == {Absent, Regular("h1", 1), SymLink, HashFails}
ZipKinds == {Absent, Regular("h1", 1), ZipA, ZipB}

\* A few trees, one per row: what each of the paths of PathNames is.
TreeRows ==
  << <<Regular("h1", 1), ZipA, ZipB, Regular("h1", 1), ZipA>>,
     <<Unreadable, Regular("h1", 1), ZipA, SymLink, ZipB>>,
     <<SymLink, ZipA, ZipA, HashFails, Absent>>,
     <<HashFails, BrokenArchive, ZipB, Unreadable, ZipB>>,
     <<Regular("h1", 1), Absent, Absent, Absent, Absent>>,
     <<Absent, Absent, Absent, Absent, Absent>> >>
TreeOfRow(r) == [p \in Paths |-> TreeRows[r][CHOOSE n \in PathIds : PathNames[n] = p]]
SampleTrees == {TreeOfRow(r) : r \in DOMAIN TreeRows}
\* The first of them: a file, and two archives with a member of the same content.
OneTree == {TreeOfRow(1)}
\* A tree holding one archive and nothing else.
ArchiveTree == {[p \in Paths |-> IF p = "/r/b.zip" THEN ZipA ELSE Absent]}

\* Trees of one archive whose other paths are symbolic links.
LinkKinds == {SymLink, DanglingLink}
LinkTrees ==
  {t \in [Paths -> LinkKinds \cup {ZipA}] : \A p \in Paths : (t[p] = ZipA) <=> (p = "/r/b.zip")}

KindsOf(p) == IF SplitExt(p) = ".zip" THEN ZipKinds ELSE TxtKinds
Trees == {t \in [Paths -> TxtKinds \cup ZipKinds] : \A p \in Paths : t[p] \in KindsOf(p)}

VARIABLES
  fs,               \* the directory tree under Root: Paths -> what the path is
  fs_changes,       \* number of times the tree changed between two invocations
  ckpt,             \* the checkpoint file .dupliscan_state.pkl
  st,               \* current_scan_state of the running (or last) process
  pause_requested,  \* the global flag set by signal_handler
  pc,               \* where the process is in main ("idle": no process)
  i,                \* the loop index of the phase loop being executed
  duplicate_groups, \* main's local list of groups
  scan_path,        \* main's local scan_path
  report_output_path, \* main's local report_output_path
  exit_code,        \* exit status of the last process (-1 before any)
  handed,           \* <<groups, destination>> handed to generate_html_report by this process
  rendered,         \* "none", "written" or "failed": what generate_html_report did
  log,              \* of the scan st belongs to: the units each phase processed, in order
  ckpt_log,         \* the log of the scan whose state the checkpoint file holds
  args,             \* the command line of the running (or last) process
  found,            \* what the checkpoint file was when that process started
  faults,           \* number of unexpected exceptions raised so far
  store,            \* the directory of the checkpoint file: its mode, and how often it changed
  call              \* a direct call of a library function: its name, argument and result

vars == <<fs, fs_changes, ckpt, st, pause_requested, pc, i, duplicate_groups, scan_path,
          report_output_path, exit_code, handed, rendered, log, ckpt_log, args, found, faults,
          store, call>>

\* ------------------------------------------------------------------ records
\* models.FileInfo; equality of FileInfo objects is by path alone.
FileInfo(path, size, hash, ext, in_zip, parent) ==
  [path |-> path, size |-> size, hash_sha256 |-> hash, file_type |-> None,
   extension |-> ext, magic_number_details |-> None,
   is_in_zip |-> in_zip, zip_parent_path |-> parent]

DuplicateGroup(id, files) == [id |-> id, files |-> files]

\* dict[key] = value
DictSet(d, k, v) == (k :> v) @@ d
\* dict.update(other)
DictUpdate(d, other) == other @@ d
EmptyDict == <<>>

\* The state main creates for a new scan.
FreshState(root_dir, output) ==
  [scan_parameters |-> [root_dir |-> root_dir, report_output_path |-> output],
   current_scan_phase |-> "INIT",
   collected_file_paths_for_scan_phase |-> <<>>, pending_file_paths_idx |-> 0,
   processed_disk_files |-> <<>>, scan_errors |-> EmptyDict,
   classification_idx |-> 0,
   zip_files_to_scan_info |-> <<>>, pending_zip_info_idx |-> 0,
   zip_files_to_scan_info_collected |-> FALSE,
   files_from_zips_accumulator |-> <<>>, zip_scan_errors |-> EmptyDict,
   all_files_to_check_for_duplicate_phase |-> <<>>,
   processed_duplication_check_idx |-> 0,
   hashes_dict_accumulator |-> EmptyDict]

\* current_scan_state = None
NoState == [current_scan_phase |-> None]

Phases == <<"INIT", "SCANNING_DISK", "CLASSIFYING", "SCANNING_ZIPS",
            "FINDING_DUPLICATES", "REPORTING", "COMPLETED">>
PhaseNo(ph) == CHOOSE n \in 1..Len(Phases) : Phases[n] = ph

\* ------------------------------------------------------------ pure helpers
\* Mutant: every value counts as present.
MutTruthy(x) == TRUE

\* Python truthiness of an optional string.
Truthy(x) == x # None /\ x # ""

\* os.walk(root_dir): every listed file name, in walk order.
RECURSIVE WalkFrom(_, _)
WalkFrom(tree, n) ==
  IF n > MaxPaths THEN <<>>
  ELSE (IF tree[PathNames[n]].exists THEN <<PathNames[n]>> ELSE <<>>) \o WalkFrom(tree, n + 1)

OsWalk(tree) == WalkFrom(tree, 1)

\* os.walk(root_dir) for a root that may not be a directory (it then yields nothing).
OsWalkRoot(tree, root_dir) == IF root_dir = Root THEN OsWalk(tree) ELSE <<>>

\* _calculate_sha256(file_path): the digest of the file's bytes, None on IOError.
CalculateSha256(tree, path) == tree[path].content

\* _calculate_sha256_from_bytes(BytesIO(content_bytes))
CalculateSha256FromBytes(member) == member.content

\* ---- the fingerprint, byte by byte
\* hashlib.sha256 as a running digest of one byte of state: sha256() is the
\* initial state, update(block) absorbs the bytes of block in order, and
\* hexdigest() writes the state as two lowercase hexadecimal digits.
HexDigits == <<"0", "1", "2", "3", "4", "5", "6", "7", "8", "9", "a", "b", "c", "d", "e", "f">>
Sha256New == [h |-> 99]
Absorb(sha256, byte) == [h |-> (sha256.h * 33 + byte + 1) % 256]
RECURSIVE Sha256Update(_, _)
Sha256Update(sha256, block) ==
  IF block = <<>> THEN sha256 ELSE Sha256Update(Absorb(sha256, Head(block)), Tail(block))
HexDigest(sha256) == HexDigits[(sha256.h \div 16) + 1] \o HexDigits[(sha256.h % 16) + 1]

\* hashlib.sha256(content).hexdigest(), as the unit tests compute it.
ReferenceDigest(content) == HexDigest(Sha256Update(Sha256New, content))

\* Mutant: a block shorter than block_size is taken for the end of the data.
MutRead(bytes, pos, block_size) ==
  IF pos + block_size <= Len(bytes) THEN SubSeq(bytes, pos + 1, pos + block_size) ELSE <<>>

\* f.read(block_size) at offset pos: the next block_size bytes, fewer at the
\* end of the data, b'' after it.
Read(bytes, pos, block_size) ==
  SubSeq(bytes, pos + 1, IF pos + block_size <= Len(bytes) THEN pos + block_size ELSE Len(bytes))

\* for block in iter(lambda: f.read(block_size), b''): sha256.update(block),
\* then hexdigest(); the read numbered source.fail_at raises IOError, which
\* the except clause turns into None.
RECURSIVE ReadLoop(_, _, _, _, _)
ReadLoop(source, pos, block_size, reads, sha256) ==
  IF source.fail_at = reads + 1 THEN None
  ELSE LET block == Read(source.bytes, pos, block_size) IN
    IF block = <<>> THEN HexDigest(sha256)
    ELSE ReadLoop(source, pos + Len(block), block_size, reads + 1, Sha256Update(sha256, block))

\* _calculate_sha256(file_path, block_size), on the bytes of the file: open
\* may raise IOError too.
CalculateSha256Blocks(source, block_size) ==
  IF ~source.opens THEN None ELSE ReadLoop(source, 0, block_size, 0, Sha256New)

\* _calculate_sha256_from_bytes(byte_stream, block_size), on the bytes of the stream.
CalculateSha256FromBytesBlocks(source, block_size) == ReadLoop(source, 0, block_size, 0, Sha256New)

\* Keys of zip_scan_errors: the container path, or f"{zip_file_path}/{name}".
ContainerKey(zpath) == <<zpath>>
MemberKey(zpath, name) == <<zpath, "/", name>>

\* Mutant: directory entries are not passed over (they read as no bytes).
RECURSIVE MutScanMembersDirs(_, _, _, _)
MutScanMembersDirs(zpath, members, n, acc) ==
  IF n > Len(members) THEN acc
  ELSE LET m == members[n] IN
    IF m.is_dir
      THEN MutScanMembersDirs(zpath, members, n + 1,
             [acc EXCEPT !.files = Append(@, FileInfo(m.filename, m.file_size, "h0", None, TRUE, zpath))])
    ELSE IF ~m.reads
      THEN MutScanMembersDirs(zpath, members, n + 1,
             [acc EXCEPT !.errors = DictSet(@, MemberKey(zpath, m.filename), "Error processing file in zip")])
    ELSE IF CalculateSha256FromBytes(m) = None
      THEN MutScanMembersDirs(zpath, members, n + 1,
             [acc EXCEPT !.errors = DictSet(@, MemberKey(zpath, m.filename), "Could not calculate hash (IOError in zip)")])
    ELSE MutScanMembersDirs(zpath, members, n + 1,
             [acc EXCEPT !.files = Append(@, FileInfo(m.filename, m.file_size, CalculateSha256FromBytes(m),
                                                      SplitExt(m.filename), TRUE, zpath))])

\* Mutant: the first entry that fails ends the loop.
RECURSIVE MutScanMembers(_, _, _, _)
MutScanMembers(zpath, members, n, acc) ==
  IF n > Len(members) THEN acc
  ELSE LET m == members[n] IN
    IF m.is_dir THEN MutScanMembers(zpath, members, n + 1, acc)
    ELSE IF ~m.reads
      THEN [acc EXCEPT !.errors = DictSet(@, MemberKey(zpath, m.filename), "Error processing file in zip")]
    ELSE IF CalculateSha256FromBytes(m) = None
      THEN [acc EXCEPT !.errors = DictSet(@, MemberKey(zpath, m.filename), "Could not calculate hash (IOError in zip)")]
    ELSE MutScanMembers(zpath, members, n + 1,
             [acc EXCEPT !.files = Append(@, FileInfo(m.filename, m.file_size, CalculateSha256FromBytes(m),
                                                      SplitExt(m.filename), TRUE, zpath))])

\* The loop body of _scan_single_zip_archive over infolist(), from entry n.
RECURSIVE ScanMembers(_, _, _, _)
ScanMembers(zpath, members, n, acc) ==
  IF n > Len(members) THEN acc
  ELSE LET m == members[n] IN
    IF m.is_dir THEN ScanMembers(zpath, members, n + 1, acc)
    ELSE IF ~m.reads
      THEN ScanMembers(zpath, members, n + 1,
             [acc EXCEPT !.errors = DictSet(@, MemberKey(zpath, m.filename), "Error processing file in zip")])
    ELSE IF CalculateSha256FromBytes(m) = None
      THEN ScanMembers(zpath, members, n + 1,
             [acc EXCEPT !.errors = DictSet(@, MemberKey(zpath, m.filename), "Could not calculate hash (IOError in zip)")])
    ELSE ScanMembers(zpath, members, n + 1,
             [acc EXCEPT !.files = Append(@, FileInfo(m.filename, m.file_size, CalculateSha256FromBytes(m),
                                                      SplitExt(m.filename), TRUE, zpath))])

\* Mutant: a file that fails the container-format check is passed over.
MutScanSingleZipArchive(tree, zpath) ==
  IF ~tree[zpath].is_zipfile
    THEN [files |-> <<>>, errors |-> EmptyDict]
  ELSE IF ~tree[zpath].opens
    THEN [files |-> <<>>, errors |-> DictSet(EmptyDict, ContainerKey(zpath), "Bad ZIP file (corrupted or not a zip).")]
  ELSE ScanMembers(zpath, tree[zpath].entries, 1, [files |-> <<>>, errors |-> EmptyDict])

\* _scan_single_zip_archive(zip_file_path) -> (internal_files, zip_errors)
ScanSingleZipArchive(tree, zpath) ==
  IF ~tree[zpath].is_zipfile
    THEN [files |-> <<>>, errors |-> DictSet(EmptyDict, ContainerKey(zpath), "Not a valid ZIP file or corrupted.")]
  ELSE IF ~tree[zpath].opens
    THEN [files |-> <<>>, errors |-> DictSet(EmptyDict, ContainerKey(zpath), "Bad ZIP file (corrupted or not a zip).")]
  ELSE ScanMembers(zpath, tree[zpath].entries, 1, [files |-> <<>>, errors |-> EmptyDict])

\* EXTENSION_TO_TYPE_MAP, for the extensions of the model.
ExtensionToType(ext) == IF ext = ".txt" THEN "document" ELSE IF ext = ".zip" THEN "archive" ELSE None

\* classify_file(file_info): sets file_type (never leaves it empty).
ClassifyFile(f) ==
  IF Truthy(f.extension) /\ ExtensionToType(f.extension) # None
    THEN [f EXCEPT !.file_type = ExtensionToType(f.extension)]
    ELSE [f EXCEPT !.file_type = "unknown", !.magic_number_details = "application/octet-stream"]

\* The keys of find_duplicates' dict `hashes`, in insertion order.
RECURSIVE KeyOrder(_, _)
KeyOrder(files, seen) ==
  IF files = <<>> THEN <<>>
  ELSE LET h == Head(files).hash_sha256 IN
    IF ~Truthy(h) \/ h \in seen THEN KeyOrder(Tail(files), seen)
    ELSE <<h>> \o KeyOrder(Tail(files), seen \cup {h})

\* Mutant: the first record carrying h is left out.
MutBucket(files, h) == Tail(SelectSeq(files, LAMBDA f : f.hash_sha256 = h))

\* hashes[h]: the records carrying h, in input order.
Bucket(files, h) == SelectSeq(files, LAMBDA f : f.hash_sha256 = h)

\* Mutant: the set is of records equal in every field.
MutSetOfFileInfo(file_list) == {file_list[k] : k \in DOMAIN file_list}

\* set(file_list): FileInfo objects are equal when their paths are equal, and
\* a set keeps the first of equal elements.
SetOfFileInfo(file_list) ==
  {file_list[k] : k \in {k \in 1..Len(file_list) : \A j \in 1..(k - 1) : file_list[j].path # file_list[k].path}}

\* Mutant: a group is made of any non-empty bucket.
RECURSIVE MutGroupsOf(_, _)
MutGroupsOf(files, keys) ==
  IF keys = <<>> THEN <<>>
  ELSE LET file_list == Bucket(files, Head(keys))
           unique_files_in_group == SetOfFileInfo(file_list)
       IN (IF Len(file_list) > 0 /\ Cardinality(unique_files_in_group) > 0
             THEN <<DuplicateGroup(Head(keys), unique_files_in_group)>> ELSE <<>>)
          \o MutGroupsOf(files, Tail(keys))

\* find_duplicates, lines 15-32: the loop over hashes.items().
RECURSIVE GroupsOf(_, _)
GroupsOf(files, keys) ==
  IF keys = <<>> THEN <<>>
  ELSE LET file_list == Bucket(files, Head(keys))
           unique_files_in_group == SetOfFileInfo(file_list)
       IN (IF Len(file_list) > 1 /\ Cardinality(unique_files_in_group) > 1
             THEN <<DuplicateGroup(Head(keys), unique_files_in_group)>> ELSE <<>>)
          \o GroupsOf(files, Tail(keys))

\* find_duplicates(files) -> list of DuplicateGroup
FindDuplicates(files) == GroupsOf(files, KeyOrder(files, {}))

\* ------------------------------------------------------- the checkpoint file
NoFile == [file |-> "absent", data |-> <<>>]

\* What the directory of the checkpoint file lets a process do.  "ok": writes
\* and removals succeed.  "readonly": open(file_path, 'wb') and os.remove
\* raise.  "full": open(file_path, 'wb') truncates the file and pickle.dump
\* raises before the blob is complete.
StoreModes == {"ok", "readonly", "full"}

\* Mutant: the container path is not written.
MutPickleFileInfo(f) ==
  <<"dupliscan.core.models.FileInfo",
    <<f.path, f.size, f.hash_sha256, f.file_type, f.extension, f.magic_number_details,
      f.is_in_zip, None>> >>

\* pickle of a FileInfo object: its class and the values of its attributes.
PickleFileInfo(f) ==
  <<"dupliscan.core.models.FileInfo",
    <<f.path, f.size, f.hash_sha256, f.file_type, f.extension, f.magic_number_details,
      f.is_in_zip, f.zip_parent_path>> >>

UnpickleFileInfo(b) ==
  [path |-> b[2][1], size |-> b[2][2], hash_sha256 |-> b[2][3], file_type |-> b[2][4],
   extension |-> b[2][5], magic_number_details |-> b[2][6],
   is_in_zip |-> b[2][7], zip_parent_path |-> b[2][8]]

\* pickle of a list of FileInfo objects, and of a dict (its items).
PickleList(l) == [k \in 1..Len(l) |-> PickleFileInfo(l[k])]
UnpickleList(b) == [k \in 1..Len(b) |-> UnpickleFileInfo(b[k])]
PickleDict(d) == {<<k, d[k]>> : k \in DOMAIN d}
UnpickleDict(items) == [k \in {it[1] : it \in items} |-> (CHOOSE it \in items : it[1] = k)[2]]
PickleListDict(d) == {<<k, PickleList(d[k])>> : k \in DOMAIN d}
UnpickleListDict(items) ==
  [k \in {it[1] : it \in items} |-> UnpickleList((CHOOSE it \in items : it[1] = k)[2])]

\* pickle.dump(state, f): the items of the state dict, in insertion order.
Pickle(state) ==
  << <<"scan_parameters", <<state.scan_parameters.root_dir, state.scan_parameters.report_output_path>> >>,
     <<"current_scan_phase", state.current_scan_phase>>,
     <<"collected_file_paths_for_scan_phase", state.collected_file_paths_for_scan_phase>>,
     <<"pending_file_paths_idx", state.pending_file_paths_idx>>,
     <<"processed_disk_files", PickleList(state.processed_disk_files)>>,
     <<"scan_errors", PickleDict(state.scan_errors)>>,
     <<"classification_idx", state.classification_idx>>,
     <<"zip_files_to_scan_info", PickleList(state.zip_files_to_scan_info)>>,
     <<"pending_zip_info_idx", state.pending_zip_info_idx>>,
     <<"zip_files_to_scan_info_collected", state.zip_files_to_scan_info_collected>>,
     <<"files_from_zips_accumulator", PickleList(state.files_from_zips_accumulator)>>,
     <<"zip_scan_errors", PickleDict(state.zip_scan_errors)>>,
     <<"all_files_to_check_for_duplicate_phase", PickleList(state.all_files_to_check_for_duplicate_phase)>>,
     <<"processed_duplication_check_idx", state.processed_duplication_check_idx>>,
     <<"hashes_dict_accumulator", PickleListDict(state.hashes_dict_accumulator)>> >>

\* pickle.load(f) of a complete blob: the items are read back in the order
\* they were written, blob[n] being the n-th <<key, value>> of Pickle.
Unpickle(blob) ==
  [scan_parameters |-> [root_dir |-> blob[1][2][1],
                        report_output_path |-> blob[1][2][2]],
   current_scan_phase |-> blob[2][2],
   collected_file_paths_for_scan_phase |-> blob[3][2],
   pending_file_paths_idx |-> blob[4][2],
   processed_disk_files |-> UnpickleList(blob[5][2]),
   scan_errors |-> UnpickleDict(blob[6][2]),
   classification_idx |-> blob[7][2],
   zip_files_to_scan_info |-> UnpickleList(blob[8][2]),
   pending_zip_info_idx |-> blob[9][2],
   zip_files_to_scan_info_collected |-> blob[10][2],
   files_from_zips_accumulator |-> UnpickleList(blob[11][2]),
   zip_scan_errors |-> UnpickleDict(blob[12][2]),
   all_files_to_check_for_duplicate_phase |-> UnpickleList(blob[13][2]),
   processed_duplication_check_idx |-> blob[14][2],
   hashes_dict_accumulator |-> UnpickleListDict(blob[15][2])]

\* Mutant: an existing checkpoint is not written over.
MutSaveScanState(ck, state) ==
  IF store.mode = "readonly" THEN ck
  ELSE IF store.mode = "full" THEN [file |-> "truncated", data |-> <<>>]
  ELSE IF ck.file = "saved" THEN ck
  ELSE [file |-> "saved", data |-> Pickle(state)]

\* save_scan_state(state, file_path): pickle.dump over the old file; an
\* exception of open or of pickle.dump is caught (lines 18-19).
SaveScanState(ck, state) ==
  IF store.mode = "readonly" THEN ck
  ELSE IF store.mode = "full" THEN [file |-> "truncated", data |-> <<>>]
  ELSE [file |-> "saved", data |-> Pickle(state)]

\* open and pickle.load (lines 26-27): the object, or an exception when the
\* file cannot be read or does not hold a complete blob.
PickleLoad(ck) ==
  IF ck.file = "saved" THEN [raises |-> FALSE, value |-> Unpickle(ck.data)]
  ELSE [raises |-> TRUE, value |-> NoState]

\* Mutant: what was read before the blob ended is returned.
MutLoadScanState(ck) ==
  IF ck.file = "absent" THEN NoState
  ELSE IF PickleLoad(ck).raises THEN [NoState EXCEPT !.current_scan_phase = "INIT"]
  ELSE PickleLoad(ck).value

\* load_scan_state(file_path): None when the file is missing (line 24) or when
\* reading it raised (lines 30-33).
LoadScanState(ck) ==
  IF ck.file = "absent" THEN NoState
  ELSE IF PickleLoad(ck).raises THEN NoState
  ELSE PickleLoad(ck).value

\* Mutants: the file is left in place; only a file that loads is removed.
MutDeleteScanState(ck) == ck
MutDeleteLoadable(ck) == IF ck.file = "saved" /\ store.mode # "readonly" THEN NoFile ELSE ck

\* delete_scan_state(file_path): os.remove when the file exists; an exception
\* of os.remove is caught (lines 41-42).
DeleteScanState(ck) ==
  IF ck.file = "absent" THEN ck
  ELSE IF store.mode = "readonly" THEN ck
  ELSE NoFile

\* os.path.isdir(scan_path)
IsDir(dir) == dir = Root

\* `if current_scan_state:` (a loaded state is a non-empty dict)
HasState(s) == s.current_scan_phase # None

EmptyLog == [disk |-> <<>>, hashed |-> <<>>, cls |-> <<>>, classified |-> <<>>,
             zip |-> <<>>, expanded |-> <<>>, walks |-> 0, zip_collects |-> 0, resumes |-> 0]
\* walks and zip_collects count the times the work lists were built, resumes
\* the times the scan was resumed (2: twice or more).
Count(n) == IF n < 2 THEN n + 1 ELSE n

\* No library function has been called directly.
NoCall == [fn |-> "none", arg |-> <<>>, ret |-> <<>>]

NoArgs == [resume |-> FALSE, fresh_start |-> FALSE, scan_directory |-> None, output |-> None]

\* ------------------------------------------------------------------ Init
InitWith(trees) ==
  /\ fs \in trees
  /\ fs_changes = 0
  /\ ckpt = NoFile
  /\ st = NoState
  /\ pause_requested = FALSE
  /\ pc = "idle"
  /\ i = 0
  /\ duplicate_groups = <<>>
  /\ scan_path = None
  /\ report_output_path = None
  /\ exit_code = -1
  /\ handed = <<>>
  /\ rendered = "none"
  /\ log = EmptyLog
  /\ ckpt_log = EmptyLog
  /\ args = NoArgs
  /\ found = "absent"
  /\ faults = 0
  /\ store = [mode |-> "ok", changes |-> 0]
  /\ call = NoCall

Init == InitWith(SampleTrees)
InitAnyTree == InitWith(Trees)

\* ------------------------------------------------- how an invocation ends
\* The log that goes with the checkpoint file after a save attempt: of this
\* scan when the file was written, of the earlier scan when it was left alone.
LogOfCheckpoint(ck) ==
  IF ck.file = "saved" /\ store.mode = "ok" THEN log
  ELSE IF ck = ckpt THEN ckpt_log
  ELSE EmptyLog


\* The process is gone: its locals are dropped.
Exit(code) ==
  /\ pc' = "idle"
  /\ exit_code' = code
  /\ i' = 0
  /\ duplicate_groups' = <<>>

\* except KeyboardInterrupt (main, lines 223-230), with s the state at the raise.
KeyboardInterruptHandler(s) ==
  /\ st' = s
  /\ IF pause_requested /\ HasState(s)
       THEN ckpt' = SaveScanState(ckpt, s) /\ ckpt_log' = LogOfCheckpoint(ckpt')
       ELSE UNCHANGED <<ckpt, ckpt_log>>
  /\ Exit(0)

\* except Exception (main, lines 231-239), with s the state at the raise.
ExceptionHandler(s) ==
  /\ st' = s
  /\ IF HasState(s) /\ s.current_scan_phase \notin {"COMPLETED", None}
       THEN ckpt' = SaveScanState(ckpt, s) /\ ckpt_log' = LogOfCheckpoint(ckpt')
       ELSE UNCHANGED <<ckpt, ckpt_log>>
  /\ Exit(1)

\* ------------------------------------------------------------ main: startup
\* Mutant: a resume that loaded nothing goes on as a new scan.
MutResumeWithoutState(resume, fresh_start, loaded) == FALSE

\* main, lines 51-59: --resume (without --fresh-start) found nothing to load.
ResumeWithoutState(resume, fresh_start, loaded) == resume /\ ~fresh_start /\ ~HasState(loaded)

\* Mutant: the checkpoint is loaded whenever --fresh-start is not given.
MutLoadsAtStart(resume, fresh_start) == ~fresh_start

\* main, lines 51-56: load_scan_state is called for --resume without --fresh-start.
LoadsAtStart(resume, fresh_start) == resume /\ ~fresh_start

\* Mutant: the report goes where the command line says.
MutReportPathOf(s, loaded, report_output_path_arg) == report_output_path_arg

\* main, lines 63-72: the scan root and the report destination main uses are
\* those of the loaded state, and the command line's for a new scan.
ScanPathOf(s, loaded, scan_path_arg) ==
  IF HasState(loaded) THEN s.scan_parameters.root_dir ELSE scan_path_arg
ReportPathOf(s, loaded, report_output_path_arg) ==
  IF HasState(loaded) THEN s.scan_parameters.report_output_path ELSE report_output_path_arg

\* main, lines 29-95: argument handling, fresh start, resume, new state.
MainStart(resume, fresh_start, scan_directory, output) ==
  /\ pc = "idle"
  /\ args' = [resume |-> resume, fresh_start |-> fresh_start,
              scan_directory |-> scan_directory, output |-> output]
  /\ found' = ckpt.file
  /\ LET ck1 == IF fresh_start THEN DeleteScanState(ckpt) ELSE ckpt
         loaded == IF LoadsAtStart(resume, fresh_start) THEN LoadScanState(ck1) ELSE NoState
         s0 == IF HasState(loaded) THEN loaded ELSE FreshState(scan_directory, output)
     IN
     /\ pause_requested' = FALSE
     /\ handed' = <<>>
     /\ rendered' = "none"
     /\ ckpt' = ck1
     /\ ckpt_log' = IF ck1 = ckpt THEN ckpt_log ELSE EmptyLog
     /\ i' = 0
     /\ duplicate_groups' = <<>>
     /\ IF ResumeWithoutState(resume, fresh_start, loaded)
          THEN \* sys.exit(1), line 59
               /\ st' = NoState
               /\ log' = EmptyLog
               /\ scan_path' = None
               /\ report_output_path' = None
               /\ pc' = "idle"
               /\ exit_code' = 1
          ELSE /\ st' = s0
               /\ log' = IF HasState(loaded) THEN [ckpt_log EXCEPT !.resumes = Count(@)] ELSE EmptyLog
               /\ scan_path' = ScanPathOf(s0, loaded, scan_directory)
               /\ report_output_path' = ReportPathOf(s0, loaded, output)
               /\ IF IsDir(scan_path')
                    THEN pc' = "L99" /\ exit_code' = -1
                    ELSE pc' = "idle" /\ exit_code' = 1   \* sys.exit(1), line 93
  /\ UNCHANGED <<fs, fs_changes, store, call, faults>>

\* signal_handler: SIGINT while a process runs.
SignalHandler ==
  /\ pc # "idle"
  /\ ~pause_requested
  /\ pause_requested' = TRUE
  /\ UNCHANGED <<fs, fs_changes, store, call, ckpt, st, pc, i, duplicate_groups, scan_path, report_output_path,
                 exit_code, handed, rendered, log, ckpt_log, args, found, faults>>

\* The checkpoint file is damaged between two invocations (load_scan_state
\* then fails to unpickle it, lines 28-33 of state_manager.py).
CorruptCheckpoint ==
  /\ pc = "idle"
  /\ ckpt.file = "saved"
  /\ ckpt' = [file |-> "corrupt", data |-> <<>>]
  /\ ckpt_log' = EmptyLog
  /\ UNCHANGED <<fs, fs_changes, store, call, st, pause_requested, pc, i, duplicate_groups, scan_path, report_output_path,
                 exit_code, handed, rendered, log, args, found, faults>>

\* Frames: what a step of main that only touches the state leaves alone.
Locals == <<scan_path, report_output_path, args, found>>
Outside == <<fs, fs_changes, store, call, ckpt, ckpt_log, exit_code, handed, rendered, faults, pause_requested>>

\* -------------------------------------------------------- phase 1: disk scan
\* main, lines 99-100.
EnterScanningDisk ==
  /\ pc = "L99"
  /\ st' = IF st.current_scan_phase = "INIT"
             THEN [st EXCEPT !.current_scan_phase = "SCANNING_DISK"] ELSE st
  /\ pc' = "L102"
  /\ UNCHANGED <<i, duplicate_groups, log>>
  /\ UNCHANGED Locals /\ UNCHANGED Outside

\* scan_directory_recursive_resumable, lines 79-94: the work list is collected
\* when the stored list is empty (`not []`), else kept.
CollectPaths(s, tree) ==
  IF s.collected_file_paths_for_scan_phase = <<>>
    THEN [s EXCEPT !.collected_file_paths_for_scan_phase = OsWalkRoot(tree, s.scan_parameters.root_dir),
                   !.pending_file_paths_idx = 0]
    ELSE s

\* main, line 102, and the head of scan_directory_recursive_resumable.
StartDiskScan ==
  /\ pc = "L102"
  /\ IF st.current_scan_phase = "SCANNING_DISK"
       THEN /\ st' = CollectPaths(st, fs)
            /\ i' = st'.pending_file_paths_idx
            /\ log' = IF st.collected_file_paths_for_scan_phase = <<>>
                        THEN [log EXCEPT !.walks = Count(@)] ELSE log
            /\ pc' = "disk_loop"
       ELSE /\ pc' = "L110"
            /\ UNCHANGED <<st, i, log>>
  /\ UNCHANGED duplicate_groups
  /\ UNCHANGED Locals /\ UNCHANGED Outside

\* scan_directory_recursive_resumable, lines 100-106 and 131: the loop head
\* with its cancellation check, and the loop's end.
\* Mutants: the cursor stored one too far; the cursor not stored.
MutDiskPauseCursorAhead(s, idx) == [s EXCEPT !.pending_file_paths_idx = idx + 1]
MutDiskPauseCursorKept(s, idx) == s
DiskPauseCursor(s, idx) == [s EXCEPT !.pending_file_paths_idx = idx]

DiskLoopHead ==
  /\ pc = "disk_loop"
  /\ IF i < Len(st.collected_file_paths_for_scan_phase)
       THEN IF pause_requested
              THEN st' = DiskPauseCursor(st, i) /\ pc' = "L106"
              ELSE st' = st /\ pc' = "disk_unit"
       ELSE /\ st' = [st EXCEPT !.pending_file_paths_idx = Len(st.collected_file_paths_for_scan_phase)]
            /\ pc' = "L106"
  /\ UNCHANGED <<i, duplicate_groups, log>>
  /\ UNCHANGED Locals /\ UNCHANGED Outside

\* scan_directory_recursive_resumable, lines 108-128: one path of the work list.
DiskUnit(s, tree, file_path) ==
  IF ~tree[file_path].access
    THEN [s EXCEPT !.scan_errors = DictSet(@, file_path, "Permission denied")]
  ELSE IF tree[file_path].islink
    THEN s
  ELSE IF CalculateSha256(tree, file_path) = None
    THEN [s EXCEPT !.scan_errors = DictSet(@, file_path, "Could not calculate hash (IOError)")]
  ELSE [s EXCEPT !.processed_disk_files =
          Append(@, FileInfo(file_path, tree[file_path].size, CalculateSha256(tree, file_path),
                             SplitExt(file_path), FALSE, None))]

\* Whether the unit calls _calculate_sha256.
DiskUnitHashes(tree, file_path) == tree[file_path].access /\ ~tree[file_path].islink

DiskLoopBody ==
  /\ pc = "disk_unit"
  /\ LET file_path == st.collected_file_paths_for_scan_phase[i + 1] IN
       /\ st' = DiskUnit(st, fs, file_path)
       /\ log' = [log EXCEPT !.disk = Append(@, i),
                             !.hashed = IF DiskUnitHashes(fs, file_path) THEN Append(@, file_path) ELSE @]
  /\ i' = i + 1
  /\ pc' = "disk_loop"
  /\ UNCHANGED duplicate_groups
  /\ UNCHANGED Locals /\ UNCHANGED Outside

\* An exception that escapes the loop of scan_directory_recursive_resumable
\* outside its try block (lines 100-102), caught by main's except Exception.
DiskUnitRaises ==
  /\ pc = "disk_unit"
  /\ faults < MaxFaults
  /\ faults' = faults + 1
  /\ ExceptionHandler(st)
  /\ UNCHANGED <<fs, fs_changes, store, call, pause_requested, handed, rendered, log>>
  /\ UNCHANGED Locals

\* Mutant: the phase after the disk scan is SCANNING_ZIPS.
MutAfterDiskScan ==
  /\ pc = "L106"
  /\ IF pause_requested
       THEN /\ KeyboardInterruptHandler(st)
            /\ UNCHANGED <<fs, fs_changes, store, call, pause_requested, handed, rendered, log, faults>>
       ELSE /\ st' = [st EXCEPT !.current_scan_phase = "SCANNING_ZIPS"]
            /\ pc' = "L110"
            /\ UNCHANGED <<i, duplicate_groups, log>>
            /\ UNCHANGED Outside
  /\ UNCHANGED Locals

\* main, lines 106-107.
AfterDiskScan ==
  /\ pc = "L106"
  /\ IF pause_requested
       THEN /\ KeyboardInterruptHandler(st)
            /\ UNCHANGED <<fs, fs_changes, store, call, pause_requested, handed, rendered, log, faults>>
       ELSE /\ st' = [st EXCEPT !.current_scan_phase = "CLASSIFYING"]
            /\ pc' = "L110"
            /\ UNCHANGED <<i, duplicate_groups, log>>
            /\ UNCHANGED Outside
  /\ UNCHANGED Locals

\* ------------------------------------------------------ phase 2: classifying
\* Mutant: the classification loop starts at the first record in every
\* invocation.
MutStartClassifying ==
  /\ pc = "L110"
  /\ IF st.current_scan_phase = "CLASSIFYING"
       THEN i' = 0 /\ pc' = "cls_loop"
       ELSE i' = i /\ pc' = "L141"
  /\ UNCHANGED <<st, duplicate_groups, log>>
  /\ UNCHANGED Locals /\ UNCHANGED Outside

\* main, lines 110-116.
StartClassifying ==
  /\ pc = "L110"
  /\ IF st.current_scan_phase = "CLASSIFYING"
       THEN i' = st.classification_idx /\ pc' = "cls_loop"
       ELSE i' = i /\ pc' = "L141"
  /\ UNCHANGED <<st, duplicate_groups, log>>
  /\ UNCHANGED Locals /\ UNCHANGED Outside

\* Mutant: classification_idx left at the record just classified.
MutClassifyUnitCursor(s, idx) ==
  [s EXCEPT !.processed_disk_files[idx + 1] =
              IF ~Truthy(@.file_type) THEN ClassifyFile(@) ELSE @,
            !.classification_idx = idx]

\* main, lines 124-133: one record of processed_disk_files.
ClassifyUnit(s, idx) ==
  [s EXCEPT !.processed_disk_files[idx + 1] =
              IF ~Truthy(@.file_type) THEN ClassifyFile(@) ELSE @,
            !.classification_idx = idx + 1]

\* main, lines 122-134: the loop head and body.
ClassifyLoopBody ==
  /\ pc = "cls_loop"
  /\ IF i < Len(st.processed_disk_files)
       THEN /\ st' = ClassifyUnit(st, i)
            /\ log' = [log EXCEPT !.cls = Append(@, i),
                                  !.classified = IF ~Truthy(st.processed_disk_files[i + 1].file_type)
                                                   THEN Append(@, i) ELSE @]
            /\ pc' = "cls_check"
       ELSE /\ pc' = "L137"
            /\ UNCHANGED <<st, log>>
  /\ UNCHANGED <<i, duplicate_groups>>
  /\ UNCHANGED Locals /\ UNCHANGED Outside

\* main, line 135: the cancellation check after each record.
ClassifyPauseCheck ==
  /\ pc = "cls_check"
  /\ IF pause_requested
       THEN i' = i /\ pc' = "L137"
       ELSE i' = i + 1 /\ pc' = "cls_loop"
  /\ UNCHANGED <<st, duplicate_groups, log>>
  /\ UNCHANGED Locals /\ UNCHANGED Outside

\* An exception that escapes the classification loop before record i is
\* classified (lines 122-126), caught by main's except Exception.
ClassifyUnitRaises ==
  /\ pc = "cls_loop"
  /\ i < Len(st.processed_disk_files)
  /\ faults < MaxFaults
  /\ faults' = faults + 1
  /\ ExceptionHandler(st)
  /\ UNCHANGED <<fs, fs_changes, store, call, pause_requested, handed, rendered, log>>
  /\ UNCHANGED Locals

\* Mutant: the phase after classification is entered whatever the flag says.
MutAfterClassifying ==
  /\ pc = "L137"
  /\ st' = [st EXCEPT !.current_scan_phase = "SCANNING_ZIPS"]
  /\ pc' = "L141"
  /\ UNCHANGED <<i, duplicate_groups, log>>
  /\ UNCHANGED Outside
  /\ UNCHANGED Locals

\* main, lines 137-138.
AfterClassifying ==
  /\ pc = "L137"
  /\ IF pause_requested
       THEN /\ KeyboardInterruptHandler(st)
            /\ UNCHANGED <<fs, fs_changes, store, call, pause_requested, handed, rendered, log, faults>>
       ELSE /\ st' = [st EXCEPT !.current_scan_phase = "SCANNING_ZIPS"]
            /\ pc' = "L141"
            /\ UNCHANGED <<i, duplicate_groups, log>>
            /\ UNCHANGED Outside
  /\ UNCHANGED Locals

\* Mutant: the archive work list is built by every invocation that enters the
\* phase, whatever zip_files_to_scan_info_collected says.
MutCollectZipsAgain(s, tree) ==
  [s EXCEPT !.zip_files_to_scan_info =
              SelectSeq(s.processed_disk_files,
                        LAMBDA f : f.extension = ".zip" /\ tree[f.path].exists
                                   /\ tree[f.path].is_zipfile),
            !.pending_zip_info_idx = 0,
            !.zip_files_to_scan_info_collected = TRUE]

\* ------------------------------------------------------ phase 3: ZIP contents
\* add_zip_contents_to_scan_resumable, lines 141-164: the archive work list is
\* built unless zip_files_to_scan_info_collected is set.
CollectZips(s, tree) ==
  IF ~s.zip_files_to_scan_info_collected
    THEN [s EXCEPT !.zip_files_to_scan_info =
                     SelectSeq(s.processed_disk_files,
                               LAMBDA f : f.extension = ".zip" /\ tree[f.path].exists
                                          /\ tree[f.path].is_zipfile),
                   !.pending_zip_info_idx = 0,
                   !.zip_files_to_scan_info_collected = TRUE]
    ELSE s

\* main, line 141, and the head of add_zip_contents_to_scan_resumable.
StartZipScan ==
  /\ pc = "L141"
  /\ IF st.current_scan_phase = "SCANNING_ZIPS"
       THEN /\ st' = CollectZips(st, fs)
            /\ i' = st'.pending_zip_info_idx
            /\ log' = IF ~st.zip_files_to_scan_info_collected
                        THEN [log EXCEPT !.zip_collects = Count(@)] ELSE log
            /\ pc' = "zip_loop"
       ELSE /\ pc' = "L149"
            /\ UNCHANGED <<st, i, log>>
  /\ UNCHANGED duplicate_groups
  /\ UNCHANGED Locals /\ UNCHANGED Outside

\* Mutant: the cursor stored at a pause counts the archive about to be expanded.
MutZipPauseCursorAhead(s, idx) == [s EXCEPT !.pending_zip_info_idx = idx + 1]

\* add_zip_contents_to_scan_resumable, lines 170-179 and 189.
ZipPauseCursor(s, idx) == [s EXCEPT !.pending_zip_info_idx = idx]

ZipLoopHead ==
  /\ pc = "zip_loop"
  /\ IF i < Len(st.zip_files_to_scan_info)
       THEN IF pause_requested
              THEN st' = ZipPauseCursor(st, i) /\ pc' = "L145"
              ELSE st' = st /\ pc' = "zip_unit"
       ELSE /\ st' = [st EXCEPT !.pending_zip_info_idx = Len(st.zip_files_to_scan_info)]
            /\ pc' = "L145"
  /\ UNCHANGED <<i, duplicate_groups, log>>
  /\ UNCHANGED Locals /\ UNCHANGED Outside

\* Mutant: the records of an archive replace those of the archives before it.
MutZipUnitReplaces(s, tree, zpath) ==
  IF ~tree[zpath].access
    THEN [s EXCEPT !.zip_scan_errors = DictSet(@, ContainerKey(zpath), "Permission denied to read ZIP.")]
    ELSE [s EXCEPT !.files_from_zips_accumulator = ScanSingleZipArchive(tree, zpath).files,
                   !.zip_scan_errors = DictUpdate(@, ScanSingleZipArchive(tree, zpath).errors)]

\* add_zip_contents_to_scan_resumable, lines 181-186: one archive.
ZipUnit(s, tree, zpath) ==
  IF ~tree[zpath].access
    THEN [s EXCEPT !.zip_scan_errors = DictSet(@, ContainerKey(zpath), "Permission denied to read ZIP.")]
    ELSE [s EXCEPT !.files_from_zips_accumulator = @ \o ScanSingleZipArchive(tree, zpath).files,
                   !.zip_scan_errors = DictUpdate(@, ScanSingleZipArchive(tree, zpath).errors)]

ZipLoopBody ==
  /\ pc = "zip_unit"
  /\ LET zpath == st.zip_files_to_scan_info[i + 1].path IN
       /\ st' = ZipUnit(st, fs, zpath)
       /\ log' = [log EXCEPT !.zip = Append(@, i),
                             !.expanded = IF fs[zpath].access THEN Append(@, zpath) ELSE @]
  /\ i' = i + 1
  /\ pc' = "zip_loop"
  /\ UNCHANGED duplicate_groups
  /\ UNCHANGED Locals /\ UNCHANGED Outside

\* An exception that escapes the loop of add_zip_contents_to_scan_resumable
\* (lines 170-175), caught by main's except Exception.
ZipUnitRaises ==
  /\ pc = "zip_unit"
  /\ faults < MaxFaults
  /\ faults' = faults + 1
  /\ ExceptionHandler(st)
  /\ UNCHANGED <<fs, fs_changes, store, call, pause_requested, handed, rendered, log>>
  /\ UNCHANGED Locals

\* Mutant: the phase is advanced before the cancellation check.
MutAfterZipScan ==
  /\ pc = "L145"
  /\ IF pause_requested
       THEN /\ KeyboardInterruptHandler([st EXCEPT !.current_scan_phase = "FINDING_DUPLICATES"])
            /\ UNCHANGED <<fs, fs_changes, store, call, pause_requested, handed, rendered, log, faults>>
       ELSE /\ st' = [st EXCEPT !.current_scan_phase = "FINDING_DUPLICATES"]
            /\ pc' = "L149"
            /\ UNCHANGED <<i, duplicate_groups, log>>
            /\ UNCHANGED Outside
  /\ UNCHANGED Locals

\* main, lines 145-146.
AfterZipScan ==
  /\ pc = "L145"
  /\ IF pause_requested
       THEN /\ KeyboardInterruptHandler(st)
            /\ UNCHANGED <<fs, fs_changes, store, call, pause_requested, handed, rendered, log, faults>>
       ELSE /\ st' = [st EXCEPT !.current_scan_phase = "FINDING_DUPLICATES"]
            /\ pc' = "L149"
            /\ UNCHANGED <<i, duplicate_groups, log>>
            /\ UNCHANGED Outside
  /\ UNCHANGED Locals

\* -------------------------------------------------- phase 4: finding duplicates
\* The groups main builds from hashes_dict_accumulator (lines 178-185 and
\* 202-209): one per hash with more than one distinct record.
RECURSIVE GroupsFromAccumulator(_, _)
GroupsFromAccumulator(acc, keys) ==
  IF keys = {} THEN <<>>
  ELSE LET h == CHOOSE k \in keys : TRUE
           files == SetOfFileInfo(acc[h])
       IN (IF Len(acc[h]) > 1 /\ Cardinality(files) > 1
             THEN <<DuplicateGroup(h, files)>> ELSE <<>>)
          \o GroupsFromAccumulator(acc, keys \ {h})

\* main, lines 152-164: the records of both accumulators.
AllFilesForDupCheck(s) == s.processed_disk_files \o s.files_from_zips_accumulator

\* main, lines 166-188: the groups of the FINDING_DUPLICATES phase.
FindingDuplicates(s) ==
  IF AllFilesForDupCheck(s) = <<>> THEN <<>>
  ELSE IF s.processed_duplication_check_idx > 0 /\ DOMAIN s.hashes_dict_accumulator # {}
    THEN GroupsFromAccumulator(s.hashes_dict_accumulator, DOMAIN s.hashes_dict_accumulator)
  ELSE IF DOMAIN s.hashes_dict_accumulator = {}
    THEN FindDuplicates(AllFilesForDupCheck(s))
  ELSE <<>>

\* main, lines 149-192.
FindDuplicatesPhase ==
  /\ pc = "L149"
  /\ IF st.current_scan_phase = "FINDING_DUPLICATES"
       THEN /\ st' = [st EXCEPT !.all_files_to_check_for_duplicate_phase = AllFilesForDupCheck(st)]
            /\ duplicate_groups' = FindingDuplicates(st)
            /\ pc' = "L193"
       ELSE /\ duplicate_groups' = <<>>
            /\ pc' = "L197"
            /\ UNCHANGED st
  /\ UNCHANGED <<i, log>>
  /\ UNCHANGED Locals /\ UNCHANGED Outside

\* Mutant: the state is saved when FINDING_DUPLICATES is left for REPORTING.
MutAfterFindDuplicates ==
  /\ pc = "L193"
  /\ IF pause_requested
       THEN /\ KeyboardInterruptHandler(st)
            /\ UNCHANGED <<fs, fs_changes, store, call, pause_requested, handed, rendered, log, faults>>
       ELSE /\ st' = [st EXCEPT !.current_scan_phase = "REPORTING"]
            /\ pc' = "L197"
            /\ ckpt' = SaveScanState(ckpt, st')
            /\ ckpt_log' = LogOfCheckpoint(ckpt')
            /\ UNCHANGED <<i, duplicate_groups, log>>
            /\ UNCHANGED <<fs, fs_changes, store, call, exit_code, handed, rendered, faults, pause_requested>>
  /\ UNCHANGED Locals

\* main, lines 193-194.
AfterFindDuplicates ==
  /\ pc = "L193"
  /\ IF pause_requested
       THEN /\ KeyboardInterruptHandler(st)
            /\ UNCHANGED <<fs, fs_changes, store, call, pause_requested, handed, rendered, log, faults>>
       ELSE /\ st' = [st EXCEPT !.current_scan_phase = "REPORTING"]
            /\ pc' = "L197"
            /\ UNCHANGED <<i, duplicate_groups, log>>
            /\ UNCHANGED Outside
  /\ UNCHANGED Locals

\* ------------------------------------------------------- phase 5: reporting
\* main, lines 199-209: the groups given to generate_html_report.
GroupsForReport(s, groups) ==
  IF groups = <<>> /\ DOMAIN s.hashes_dict_accumulator # {}
    THEN GroupsFromAccumulator(s.hashes_dict_accumulator, DOMAIN s.hashes_dict_accumulator)
    ELSE groups

\* main, lines 216-221, after generate_html_report returned (it returns
\* normally whether or not the report file could be written).
AfterReport(s, written) == [s EXCEPT !.current_scan_phase = "COMPLETED"]

\* The checkpoint file after generate_html_report returned (line 220).
CheckpointAfterReport(ck, written) == DeleteScanState(ck)

\* main, lines 197-221 and the normal end of main.  generate_html_report
\* catches the IOError of an unwritable destination and returns.
ReportPhase ==
  /\ pc = "L197"
  /\ IF st.current_scan_phase = "REPORTING"
       THEN \E written \in BOOLEAN :
              /\ handed' = <<GroupsForReport(st, duplicate_groups), report_output_path>>
              /\ rendered' = IF written THEN "written" ELSE "failed"
              /\ ckpt' = CheckpointAfterReport(ckpt, written)
              /\ ckpt_log' = IF ckpt' = ckpt THEN ckpt_log ELSE EmptyLog
              /\ st' = AfterReport(st, written)
       ELSE UNCHANGED <<handed, rendered, ckpt, ckpt_log, st>>
  /\ Exit(0)
  /\ UNCHANGED <<fs, fs_changes, store, call, pause_requested, log, faults>>
  /\ UNCHANGED Locals

\* generate_html_report raises something other than IOError (for instance a
\* UnicodeEncodeError while writing a path): caught by main's except Exception.
ReportRaises ==
  /\ pc = "L197"
  /\ st.current_scan_phase = "REPORTING"
  /\ faults < MaxFaults
  /\ faults' = faults + 1
  /\ handed' = <<GroupsForReport(st, duplicate_groups), report_output_path>>
  /\ rendered' = "failed"
  /\ ExceptionHandler(st)
  /\ UNCHANGED <<fs, fs_changes, store, call, pause_requested, log>>
  /\ UNCHANGED Locals

\* ------------------------------------------------------------ specifications
Step ==
  \/ EnterScanningDisk \/ StartDiskScan \/ DiskLoopHead \/ DiskLoopBody \/ AfterDiskScan
  \/ StartClassifying \/ ClassifyLoopBody \/ ClassifyPauseCheck \/ AfterClassifying
  \/ StartZipScan \/ ZipLoopHead \/ ZipLoopBody \/ AfterZipScan
  \/ FindDuplicatesPhase \/ AfterFindDuplicates
  \/ ReportPhase

Invoke ==
  \E resume \in BOOLEAN, fresh_start \in BOOLEAN, scan_directory \in Dirs, output \in Outputs :
    MainStart(resume, fresh_start, scan_directory, output)

\* The same command lines, with either report destination.
InvokeAny ==
  \E resume \in BOOLEAN, fresh_start \in BOOLEAN, scan_directory \in Dirs, output \in AllOutputs :
    MainStart(resume, fresh_start, scan_directory, output)

\* The directory of the checkpoint file becomes read-only, full or usable
\* again.  save_scan_state and delete_scan_state run at the start and at the
\* end of an invocation only, so a change during the phases is a change
\* before the first of them.
StoreChange ==
  /\ pc \in {"idle", "L99"}
  /\ store.changes < MaxStoreChanges
  /\ \E mode \in StoreModes \ {store.mode} : store' = [mode |-> mode, changes |-> store.changes + 1]
  /\ UNCHANGED <<fs, fs_changes, call, ckpt, st, pause_requested, pc, i, duplicate_groups, scan_path,
                 report_output_path, exit_code, handed, rendered, log, ckpt_log, args, found, faults>>

Fault == DiskUnitRaises \/ ClassifyUnitRaises \/ ZipUnitRaises \/ ReportRaises

\* Every invocation ends by completing, by a cancellation pause or by one of
\* the startup failures.
NextPause == Invoke \/ SignalHandler \/ Step \/ CorruptCheckpoint
SpecPause == InitAnyTree /\ [][NextPause]_vars

\* The same, with unexpected exceptions escaping phase steps.
Next == Invoke \/ SignalHandler \/ Step \/ CorruptCheckpoint \/ Fault
Spec == Init /\ [][Next]_vars

\* The same on a tree of one archive, with a checkpoint directory that may
\* refuse writes.
InitArchiveTree == InitWith(ArchiveTree)
NextStore == Invoke \/ SignalHandler \/ Step \/ CorruptCheckpoint \/ Fault \/ StoreChange
SpecStore == InitArchiveTree /\ [][NextStore]_vars

\* Between two invocations a path of the tree is removed, or written as a
\* plain file whatever it was before.
FsChange ==
  /\ pc = "idle"
  /\ fs_changes < MaxFsChanges
  /\ fs_changes' = fs_changes + 1
  /\ \E p \in Paths :
       \E kind \in {Absent, Regular("h1", 1)} \ {fs[p]} : fs' = [fs EXCEPT ![p] = kind]
  /\ UNCHANGED <<store, call, ckpt, st, pause_requested, pc, i, duplicate_groups, scan_path,
                 report_output_path, exit_code, handed, rendered, log, ckpt_log, args, found, faults>>

\* Pauses and resumes on a tree of archives that changes between invocations.
ArchivesOnly == {[p \in Paths |-> IF SplitExt(p) = ".zip" THEN ZipA ELSE Absent]}
InitArchivesOnly == InitWith(ArchivesOnly)
NextFs == Invoke \/ SignalHandler \/ Step \/ FsChange
SpecFs == InitArchivesOnly /\ [][NextFs]_vars

\* Pauses and resumes on the trees of symbolic links.
InitLinkTrees == InitWith(LinkTrees)
SpecLinks == InitLinkTrees /\ [][NextPause]_vars

InitOneTree == InitWith(OneTree)

\* Pauses and resumes on one tree, with either report destination on the
\* command line of each invocation.
NextArgs == InvokeAny \/ SignalHandler \/ Step
SpecArgs == InitOneTree /\ [][NextArgs]_vars

\* ------------------------------------------- the library called directly
\* The records find_duplicates is called with, as the unit tests build them:
\* three paths, two digests or none, and for the first path also a record
\* of that name and the first digest inside an archive.
CallPaths == {"f1", "f2", "f3"}
CallHashes == {"h1", "h2", None}
CallRecords ==
  {FileInfo(p, 10, h, None, FALSE, None) : p \in CallPaths, h \in CallHashes}
  \cup {FileInfo("f1", 10, "h1", None, TRUE, "/r/b.zip")}
FileLists == UNION {[1..n -> CallRecords] : n \in 0..MaxFiles}

\* find_duplicates(files), called on its own.
CallFindDuplicates ==
  /\ pc = "idle" /\ exit_code = -1 /\ call = NoCall
  /\ \E files \in FileLists :
       call' = [fn |-> "find_duplicates", arg |-> files, ret |-> FindDuplicates(files)]
  /\ UNCHANGED <<fs, fs_changes, store, ckpt, st, pause_requested, pc, i, duplicate_groups, scan_path,
                 report_output_path, exit_code, handed, rendered, log, ckpt_log, args, found, faults>>

\* The states save_scan_state is called with: any phase, any cursors, lists
\* of a classified disk record and an archive member, error maps with and
\* without entries.
StateRecords ==
  {ClassifyFile(FileInfo("/r/b.zip", 2, "hA", ".zip", FALSE, None)),
   FileInfo("x.txt", 1, "h1", ".txt", TRUE, "/r/b.zip")}
StateLists == UNION {[1..n -> StateRecords] : n \in 0..MaxListLen}
StateErrors == {EmptyDict, DictSet(EmptyDict, "/r/d.txt", "Permission denied")}
StateZipErrors ==
  {EmptyDict,
   DictSet(DictSet(EmptyDict, ContainerKey("/r/c.zip"), "Bad ZIP file (corrupted or not a zip)."),
           MemberKey("/r/b.zip", "w.txt"), "Error processing file in zip")}
States ==
  {[FreshState(Root, "report.html") EXCEPT
      !.current_scan_phase = Phases[ph],
      !.collected_file_paths_for_scan_phase = IF disk = <<>> THEN <<>> ELSE <<"/r/a.txt", "/r/b.zip">>,
      !.pending_file_paths_idx = cursor,
      !.classification_idx = cursor,
      !.pending_zip_info_idx = cursor,
      !.processed_disk_files = disk,
      !.zip_files_to_scan_info = SelectSeq(disk, LAMBDA f : f.extension = ".zip"),
      !.zip_files_to_scan_info_collected = (ph > 3),
      !.files_from_zips_accumulator = zips,
      !.all_files_to_check_for_duplicate_phase = IF ph > 4 THEN disk \o zips ELSE <<>>,
      !.scan_errors = errors,
      !.zip_scan_errors = zip_errors] :
    ph \in DOMAIN Phases, cursor \in 0..MaxListLen, disk \in StateLists, zips \in StateLists,
    errors \in StateErrors, zip_errors \in StateZipErrors}

\* save_scan_state(state, path) then load_scan_state(path), on a file of the
\* caller's own.
CallSaveLoad ==
  /\ pc = "idle" /\ exit_code = -1 /\ call = NoCall
  /\ \E state \in States :
       call' = [fn |-> "save_load", arg |-> state,
                ret |-> LoadScanState(SaveScanState(NoFile, state))]
  /\ UNCHANGED <<fs, fs_changes, store, ckpt, st, pause_requested, pc, i, duplicate_groups, scan_path,
                 report_output_path, exit_code, handed, rendered, log, ckpt_log, args, found, faults>>

\* The files _scan_single_zip_archive is called with: archives of up to
\* MaxEntries entries whose members have distinct names, each a directory
\* entry, a member that reads, one whose read raises or one whose
\* fingerprint fails; and files that are no archive, or one that does not open.
EntryNames == {"x.txt", "y.txt", "z.txt", "w.txt"}
Entries ==
  {DirEntry("d/")} \cup {Member(n, "h1", 1) : n \in EntryNames}
  \cup {BadMember(n) : n \in EntryNames} \cup {UnhashedMember(n) : n \in EntryNames}
DistinctNames(es) ==
  \A a, b \in DOMAIN es : (a # b /\ ~es[a].is_dir /\ ~es[b].is_dir) => es[a].filename # es[b].filename
EntryLists == {es \in UNION {[1..n -> Entries] : n \in 0..MaxEntries} : DistinctNames(es)}
ZipFiles == {Archive("hA", es) : es \in EntryLists} \cup {Regular("h1", 1), HashFails, BrokenArchive}

\* _scan_single_zip_archive(zip_file_path), called on its own on a file of
\* the caller's.
CallScanSingleZipArchive ==
  /\ pc = "idle" /\ exit_code = -1 /\ call = NoCall
  /\ \E file \in ZipFiles :
       call' = [fn |-> "scan_single_zip_archive",
                arg |-> [zip_file_path |-> "/r/b.zip", file |-> file],
                ret |-> ScanSingleZipArchive([fs EXCEPT !["/r/b.zip"] = file], "/r/b.zip")]
  /\ UNCHANGED <<fs, fs_changes, store, ckpt, st, pause_requested, pc, i, duplicate_groups, scan_path,
                 report_output_path, exit_code, handed, rendered, log, ckpt_log, args, found, faults>>

\* The byte sources the fingerprint functions are called with: every byte
\* sequence up to MaxBytes, read with every block size up to MaxBlockSize, no
\* read raising (fail_at = 0) or the read of that number raising IOError; the
\* file may also fail to open.
ByteValues == {0, 1, 255}
ByteSeqs == UNION {[1..n -> ByteValues] : n \in 0..MaxBytes}
Sources ==
  {[bytes |-> bytes, fail_at |-> fail_at, opens |-> opens] :
     bytes \in ByteSeqs, fail_at \in 0..(MaxBytes + 2), opens \in BOOLEAN}

\* _calculate_sha256 on a file and _calculate_sha256_from_bytes on a stream
\* of the same bytes, called on their own.
CallSha256 ==
  /\ pc = "idle" /\ exit_code = -1 /\ call = NoCall
  /\ \E source \in Sources, block_size \in 1..MaxBlockSize :
       call' = [fn |-> "calculate_sha256",
                arg |-> [source |-> source, block_size |-> block_size],
                ret |-> [file |-> CalculateSha256Blocks(source, block_size),
                         stream |-> CalculateSha256FromBytesBlocks(source, block_size)]]
  /\ UNCHANGED <<fs, fs_changes, store, ckpt, st, pause_requested, pc, i, duplicate_groups, scan_path,
                 report_output_path, exit_code, handed, rendered, log, ckpt_log, args, found, faults>>

\* Either a library function is called directly, once, or the command line
\* tool runs.
NextCalls ==
  \/ CallFindDuplicates \/ CallSaveLoad \/ CallScanSingleZipArchive \/ CallSha256
  \/ (call = NoCall /\ Next)
SpecCalls == InitOneTree /\ [][NextCalls]_vars

\* ================================================================== claims
\* The pipeline run in one piece: every unit of every phase, in order, with no
\* cancellation, from a fresh state.
RECURSIVE RunDiskUnits(_, _, _)
RunDiskUnits(s, tree, n) ==
  IF n >= Len(s.collected_file_paths_for_scan_phase) THEN s
  ELSE RunDiskUnits(DiskUnit(s, tree, s.collected_file_paths_for_scan_phase[n + 1]), tree, n + 1)

RECURSIVE RunClassifyUnits(_, _)
RunClassifyUnits(s, n) ==
  IF n >= Len(s.processed_disk_files) THEN s ELSE RunClassifyUnits(ClassifyUnit(s, n), n + 1)

RECURSIVE RunZipUnits(_, _, _)
RunZipUnits(s, tree, n) ==
  IF n >= Len(s.zip_files_to_scan_info) THEN s
  ELSE RunZipUnits(ZipUnit(s, tree, s.zip_files_to_scan_info[n + 1].path), tree, n + 1)

UninterruptedRun(tree) ==
  LET disk == RunDiskUnits(CollectPaths(FreshState(Root, "report.html"), tree), tree, 0)
      classified == RunClassifyUnits(disk, 0)
      zips == RunZipUnits(CollectZips(classified, tree), tree, 0)
  IN FindingDuplicates(zips)

\* A list of groups as the set of its (key, member identities) pairs.
KeysAndMembers(groups) ==
  {<<groups[k].id, {<<f.path, f.zip_parent_path>> : f \in groups[k].files}>> : k \in DOMAIN groups}

NoRepeat(seq) == \A a, b \in 1..Len(seq) : a # b => seq[a] # seq[b]
CountsUp(seq) == \A k \in 1..Len(seq) : seq[k] = k - 1
AtOrAfter(s, phase) == HasState(s) /\ PhaseNo(s.current_scan_phase) >= PhaseNo(phase)

\* C1 (resume equivalence): whatever pauses and resumes preceded it, the groups
\* handed to the reporter are, by key and member identities, those of the
\* uninterrupted pipeline on the same tree.
C1_ResumeEquivalence ==
  handed # <<>> => KeysAndMembers(handed[1]) = KeysAndMembers(UninterruptedRun(fs))

\* A scan resumed at least twice reports a non-empty list of groups.
C1_Witness ==
  /\ handed # <<>> /\ handed[1] # <<>>
  /\ log.resumes >= 2
  /\ st.current_scan_phase = "COMPLETED"

\* C2 (cancellation granularity): the cursor of a checkpoint written by a pause
\* in a cursor-driven phase equals the number k of units of that phase's work
\* list processed so far, and these are the units 0..k-1.
C2_CursorAtPause ==
  ckpt.file = "saved" =>
    LET s == Unpickle(ckpt.data) IN
      /\ s.current_scan_phase = "SCANNING_DISK" =>
           /\ s.pending_file_paths_idx = Len(ckpt_log.disk)
           /\ CountsUp(ckpt_log.disk)
           /\ s.pending_file_paths_idx \in 0..Len(s.collected_file_paths_for_scan_phase)
      /\ s.current_scan_phase = "CLASSIFYING" =>
           /\ s.classification_idx = Len(ckpt_log.cls)
           /\ CountsUp(ckpt_log.cls)
           /\ s.classification_idx \in 0..Len(s.processed_disk_files)
      /\ s.current_scan_phase = "SCANNING_ZIPS" =>
           /\ s.pending_zip_info_idx = Len(ckpt_log.zip)
           /\ CountsUp(ckpt_log.zip)
           /\ s.pending_zip_info_idx \in 0..Len(s.zip_files_to_scan_info)

\* A resumed scan paused again in SCANNING_ZIPS after one of two archives.
C2_Witness ==
  /\ pc = "idle" /\ exit_code = 0 /\ pause_requested
  /\ ckpt.file = "saved"
  /\ Unpickle(ckpt.data).current_scan_phase = "SCANNING_ZIPS"
  /\ Unpickle(ckpt.data).pending_zip_info_idx = 1
  /\ Len(Unpickle(ckpt.data).zip_files_to_scan_info) = 2
  /\ ckpt_log.resumes >= 1

\* C3 (exactly once across resumes): no unit of a work list is processed twice,
\* no path is hashed twice or recorded twice, no archive is expanded twice, and
\* a completed phase has processed every unit of its work list.
C3_ExactlyOnce ==
  HasState(st) =>
    /\ NoRepeat(log.disk) /\ NoRepeat(log.hashed)
    /\ NoRepeat(log.cls) /\ NoRepeat(log.classified)
    /\ NoRepeat(log.zip) /\ NoRepeat(log.expanded)
    /\ NoRepeat([k \in 1..Len(st.processed_disk_files) |-> st.processed_disk_files[k].path])
    /\ AtOrAfter(st, "CLASSIFYING") =>
         /\ Len(log.disk) = Len(st.collected_file_paths_for_scan_phase)
         /\ CountsUp(log.disk)
    /\ AtOrAfter(st, "SCANNING_ZIPS") =>
         /\ Len(log.cls) = Len(st.processed_disk_files)
         /\ CountsUp(log.cls)
    /\ AtOrAfter(st, "FINDING_DUPLICATES") =>
         /\ Len(log.zip) = Len(st.zip_files_to_scan_info)
         /\ CountsUp(log.zip)

\* A scan resumed twice completes having hashed two paths and expanded an archive.
C3_Witness ==
  /\ st.current_scan_phase = "COMPLETED"
  /\ log.resumes >= 2
  /\ Len(log.hashed) >= 2
  /\ Len(log.expanded) >= 1

\* A step that starts an invocation (the other steps taken with no process
\* running damage the checkpoint file, change what its directory allows or
\* call a library function).
StartStep ==
  /\ pc = "idle"
  /\ ~(ckpt.file = "saved" /\ ckpt'.file = "corrupt")
  /\ store' = store
  /\ call' = call
  /\ fs' = fs

\* C4 (fixed phase order): a running process leaves the phase tag alone or moves
\* it to the immediate successor, never out of COMPLETED; a checkpoint is
\* written with the phase of the state saved; a resume continues at the phase
\* of the checkpoint; any other start begins a new scan at INIT or runs nothing.
C4_Step ==
  /\ pc # "idle" =>
       \/ st'.current_scan_phase = st.current_scan_phase
       \/ /\ st.current_scan_phase # "COMPLETED"
          /\ PhaseNo(st'.current_scan_phase) = PhaseNo(st.current_scan_phase) + 1
  /\ (ckpt' # ckpt /\ ckpt'.file = "saved") =>
       /\ Unpickle(ckpt'.data).current_scan_phase = st.current_scan_phase
       /\ st'.current_scan_phase = st.current_scan_phase
  /\ StartStep =>
       IF args'.resume /\ ~args'.fresh_start /\ ckpt.file = "saved"
         THEN st'.current_scan_phase = Unpickle(ckpt.data).current_scan_phase
         ELSE st'.current_scan_phase \in {"INIT", None}

C4_PhaseOrder == [][C4_Step]_vars

\* A scan paused and resumed twice reaches COMPLETED.
C4_Witness ==
  /\ st.current_scan_phase = "COMPLETED"
  /\ log.resumes >= 2
  /\ exit_code = 0

\* C5 (cancellation suspends the run): once cancellation is requested in a
\* phase from SCANNING_DISK to FINDING_DUPLICATES the phase tag no longer
\* changes and no accumulated result is dropped; the check that detects it ends
\* the process with status 0 and the unchanged state saved as the checkpoint.
C5_Step ==
  /\ (pc \notin {"idle", "L197"} /\ pause_requested /\ st.current_scan_phase # "INIT") =>
       st'.current_scan_phase = st.current_scan_phase
  /\ (pc # "idle" /\ pause_requested) =>
       /\ Len(st'.processed_disk_files) >= Len(st.processed_disk_files)
       /\ Len(st'.files_from_zips_accumulator) >= Len(st.files_from_zips_accumulator)
       /\ DOMAIN st.scan_errors \subseteq DOMAIN st'.scan_errors
       /\ DOMAIN st.zip_scan_errors \subseteq DOMAIN st'.zip_scan_errors
  /\ (pc \in {"L106", "L137", "L145", "L193"} /\ pause_requested) =>
       /\ pc' = "idle"
       /\ exit_code' = 0
       /\ st' = st
       /\ ckpt'.file = "saved" /\ Unpickle(ckpt'.data) = st

C5_CancellationSuspends == [][C5_Step]_vars

\* A run paused in SCANNING_ZIPS exited with status 0, its records saved.
C5_Witness ==
  /\ pc = "idle" /\ exit_code = 0 /\ pause_requested
  /\ st.current_scan_phase = "SCANNING_ZIPS"
  /\ ckpt.file = "saved" /\ Unpickle(ckpt.data) = st
  /\ st.processed_disk_files # <<>>
  /\ st.files_from_zips_accumulator # <<>>

\* C6 (reporter success gates completion): when the report could not be
\* rendered the phase is not COMPLETED, the run did not exit with success, and
\* a checkpoint the run was resumed from is still there.
C6_ReporterGatesCompletion ==
  rendered = "failed" =>
    /\ st.current_scan_phase # "COMPLETED"
    /\ exit_code # 0
    /\ (args.resume /\ ~args.fresh_start /\ pc = "idle") => ckpt.file # "absent"

\* C7 (phase-fatal error checkpoint): a run aborted by an escaping exception
\* leaves a checkpoint whose cursor, for the phase it was in, is the number of
\* units completed, and no unit or record is ever processed or appended twice.
C7_ErrorCheckpoint ==
  /\ (pc = "idle" /\ exit_code = 1 /\ HasState(st) /\ st.current_scan_phase # "INIT") =>
       /\ ckpt.file = "saved" => Unpickle(ckpt.data) = st
       /\ st.current_scan_phase = "SCANNING_DISK" => st.pending_file_paths_idx = Len(log.disk)
       /\ st.current_scan_phase = "CLASSIFYING" => st.classification_idx = Len(log.cls)
       /\ st.current_scan_phase = "SCANNING_ZIPS" => st.pending_zip_info_idx = Len(log.zip)
  /\ HasState(st) =>
       /\ NoRepeat(log.disk) /\ NoRepeat(log.cls) /\ NoRepeat(log.zip)
       /\ NoRepeat([k \in 1..Len(st.processed_disk_files) |-> st.processed_disk_files[k].path])

\* C8 (groups recomputed from the accumulators): the groups handed to the
\* reporter are the duplicate index of the two accumulators of the state.
C8_GroupsRecomputed ==
  handed # <<>> => handed[1] = FindDuplicates(AllFilesForDupCheck(st))

\* C9 (resume requires a checkpoint): started with --resume and without
\* --fresh-start while the checkpoint file is missing or does not load, the
\* process exits with status 1, has no state, runs no phase and leaves the
\* checkpoint file as it was.
C9_Step ==
  (StartStep /\ args'.resume /\ ~args'.fresh_start /\ ckpt.file # "saved") =>
    /\ pc' = "idle"
    /\ exit_code' = 1
    /\ ckpt' = ckpt
    /\ ~HasState(st')
    /\ log' = EmptyLog
    /\ handed' = <<>>

C9_ResumeRequiresCheckpoint == [][C9_Step]_vars

\* --resume met a damaged checkpoint file: status 1, the file untouched.
C9_Witness ==
  /\ pc = "idle" /\ exit_code = 1
  /\ args.resume /\ ~args.fresh_start
  /\ found = "corrupt" /\ ckpt.file = "corrupt"
  /\ ~HasState(st)

\* C10 (fresh start): started with --fresh-start, with or without --resume, the
\* process deletes the checkpoint file, loads nothing and holds a new state:
\* phase INIT, cursors 0, empty work lists, accumulators and error maps.
C10_Step ==
  (StartStep /\ args'.fresh_start) =>
    /\ ckpt'.file = "absent"
    /\ st'.current_scan_phase = "INIT"
    /\ st'.scan_parameters = [root_dir |-> args'.scan_directory, report_output_path |-> args'.output]
    /\ st'.pending_file_paths_idx = 0 /\ st'.classification_idx = 0 /\ st'.pending_zip_info_idx = 0
    /\ st'.collected_file_paths_for_scan_phase = <<>> /\ st'.zip_files_to_scan_info = <<>>
    /\ ~st'.zip_files_to_scan_info_collected
    /\ st'.processed_disk_files = <<>> /\ st'.files_from_zips_accumulator = <<>>
    /\ DOMAIN st'.scan_errors = {} /\ DOMAIN st'.zip_scan_errors = {}
    /\ log' = EmptyLog
    /\ \/ pc' = "L99"
       \/ pc' = "idle" /\ exit_code' = 1 /\ ~IsDir(args'.scan_directory)

C10_FreshStart == [][C10_Step]_vars

\* --fresh-start with --resume found a checkpoint, deleted it and starts at INIT.
C10_Witness ==
  /\ pc = "L99"
  /\ args.fresh_start /\ args.resume
  /\ found = "saved" /\ ckpt.file = "absent"
  /\ st.current_scan_phase = "INIT"

\* A run started with neither flag while a checkpoint file existed.
FlaglessRun == pc # "idle" /\ ~args.resume /\ ~args.fresh_start /\ found # "absent"

\* Such a start leaves the file alone and holds a new state, nothing loaded.
C11_Start ==
  (StartStep /\ ~args'.resume /\ ~args'.fresh_start /\ ckpt.file # "absent") =>
    /\ ckpt' = ckpt
    /\ st' = FreshState(args'.scan_directory, args'.output)
    /\ log' = EmptyLog

\* The three ends of a run that touch the checkpoint file.
C11_Pauses ==
  /\ pc' = "idle" /\ exit_code' = 0 /\ pause_requested
  /\ ckpt'.file = "saved" /\ Unpickle(ckpt'.data) = st
C11_Completes ==
  /\ pc' = "idle" /\ exit_code' = 0 /\ st'.current_scan_phase = "COMPLETED"
  /\ ckpt' = NoFile
C11_Aborts ==
  /\ pc' = "idle" /\ exit_code' = 1
  /\ ckpt'.file = "saved" /\ Unpickle(ckpt'.data) = st

\* C11 (stale checkpoint under a flag-less run): a run started with neither
\* flag while a checkpoint exists starts from a new state without loading it,
\* and the file changes only in the step that ends the run: the pause that
\* saves, the completion that deletes, or the abort on an escaping exception,
\* whose handler saves the state of this run over it.
C11_Step ==
  /\ C11_Start
  /\ (FlaglessRun /\ ckpt' # ckpt) => (C11_Pauses \/ C11_Completes \/ C11_Aborts)

C11_StaleCheckpointKept == [][C11_Step]_vars

\* C11 as stated: the file changes only when the run pauses or completes.
C11_AsStated_Step ==
  /\ C11_Start
  /\ (FlaglessRun /\ ckpt' # ckpt) => (C11_Pauses \/ C11_Completes)

C11_AsStated == [][C11_AsStated_Step]_vars

\* A flag-less run has reached the report with the checkpoint of an earlier,
\* paused scan still in place.
C11_Witness ==
  /\ pc = "L197" /\ ~args.resume /\ ~args.fresh_start
  /\ found = "saved" /\ ckpt.file = "saved"
  /\ st.current_scan_phase = "REPORTING"
  /\ Unpickle(ckpt.data).current_scan_phase = "SCANNING_ZIPS"

\* C12 (persisted parameters win on resume): a resumed run takes its scan root
\* and report destination from the checkpoint, whatever its command line says;
\* main's two locals and the parameters of the state never change while the
\* process runs; a save stores them unchanged; the report is handed the
\* destination of the state.
C12_Step ==
  /\ (StartStep /\ args'.resume /\ ~args'.fresh_start /\ HasState(LoadScanState(ckpt))) =>
       /\ st'.scan_parameters = LoadScanState(ckpt).scan_parameters
       /\ scan_path' = LoadScanState(ckpt).scan_parameters.root_dir
       /\ report_output_path' = LoadScanState(ckpt).scan_parameters.report_output_path
  /\ pc # "idle" =>
       /\ st'.scan_parameters = st.scan_parameters
       /\ scan_path' = st.scan_parameters.root_dir
       /\ report_output_path' = st.scan_parameters.report_output_path
  /\ (ckpt' # ckpt /\ ckpt'.file = "saved") =>
       Unpickle(ckpt'.data).scan_parameters = st.scan_parameters
  /\ handed' # <<>> => handed'[2] = st'.scan_parameters.report_output_path

C12_PersistedParameters == [][C12_Step]_vars

\* A scan created for report.html was paused, resumed by a command line naming
\* another root and other.html, and completed with its report on report.html.
C12_Witness ==
  /\ st.current_scan_phase = "COMPLETED"
  /\ args.resume /\ ~args.fresh_start
  /\ args.output = "other.html" /\ args.scan_directory = NoDir
  /\ handed # <<>> /\ handed[2] = "report.html"
  /\ scan_path = Root

\* A state with every key main gives a new state, and a phase of the pipeline.
CompleteState(s) ==
  /\ DOMAIN s = DOMAIN FreshState(Root, "report.html")
  /\ DOMAIN s.scan_parameters = {"root_dir", "report_output_path"}
  /\ \E n \in DOMAIN Phases : Phases[n] = s.current_scan_phase

\* C13 (checkpoint load never fails): load returns None for a missing file and
\* for a file whose reading raises (damaged, or left truncated by a failed
\* save); any other result is a complete state, equal to the state a save was
\* given: a file that loads comes into being only in a step that saves the
\* state of the running process.  The caller of load gets the loaded state or
\* ends at line 59 with status 1, the file untouched.
C13_Step ==
  /\ ckpt.file # "saved" =>
       /\ ckpt.file = "absent" \/ PickleLoad(ckpt).raises
       /\ LoadScanState(ckpt) = NoState
  /\ (ckpt' # ckpt /\ ckpt'.file = "saved") =>
       /\ ~PickleLoad(ckpt').raises
       /\ CompleteState(LoadScanState(ckpt'))
       /\ LoadScanState(ckpt') = st
       /\ pc # "idle" /\ pc' = "idle" /\ st' = st
  /\ (StartStep /\ args'.resume /\ ~args'.fresh_start) =>
       /\ ckpt' = ckpt
       /\ IF HasState(LoadScanState(ckpt))
            THEN st' = LoadScanState(ckpt)
            ELSE st' = NoState /\ pc' = "idle" /\ exit_code' = 1

C13_LoadNeverFails == [][C13_Step]_vars

\* A resume met the file a failed save had left truncated, and ended with
\* status 1 and no state.
C13_Witness ==
  /\ pc = "idle" /\ exit_code = 1
  /\ args.resume /\ ~args.fresh_start
  /\ found = "truncated" /\ ckpt.file = "truncated"
  /\ ~HasState(st)

\* The step in which a cancelled run reaches its check and the step in which
\* an exception escapes a phase: the two callers of save_scan_state.
PauseExit == pc \in {"L106", "L137", "L145", "L193"} /\ pause_requested
ErrorExit == pc # "idle" /\ faults' = faults + 1

\* What a save attempt leaves: the saved state when it succeeds, the old file
\* when open raises, a file that does not load when pickle.dump raises.
C14_FileAfterSave ==
  /\ store.mode = "ok" => ckpt'.file = "saved" /\ LoadScanState(ckpt') = st
  /\ store.mode = "readonly" => ckpt' = ckpt
  /\ store.mode = "full" => ckpt'.file = "truncated" /\ LoadScanState(ckpt') = NoState

\* C14 (checkpoint save): a save that succeeds replaces the file, whatever it
\* was, and a load then returns exactly the state saved; whether or not the
\* save succeeds the process ends as it was going to, with status 0 after a
\* pause and status 1 after an escaping exception.
C14_Step ==
  /\ PauseExit =>
       /\ pc' = "idle" /\ exit_code' = 0 /\ st' = st
       /\ C14_FileAfterSave
  /\ ErrorExit =>
       /\ pc' = "idle" /\ exit_code' = 1 /\ st' = st
       /\ C14_FileAfterSave

C14_Save == [][C14_Step]_vars

\* A scan was paused and saved, then resumed; an exception escaped while the
\* directory was read-only: status 1, and the file still holds the first save.
C14_Witness ==
  /\ pc = "idle" /\ exit_code = 1 /\ faults = 1
  /\ log.resumes >= 1
  /\ store.mode = "readonly"
  /\ ckpt.file = "saved" /\ LoadScanState(ckpt) # st
  /\ HasState(st)

\* The two callers of delete_scan_state: a start with --fresh-start, and the
\* end of the REPORTING phase.
FreshStartStep == StartStep /\ args'.fresh_start
CompletionStep ==
  /\ pc = "L197" /\ st.current_scan_phase = "REPORTING"
  /\ pc' = "idle" /\ faults' = faults

\* C15 (checkpoint clear is idempotent): delete removes an existing file,
\* loadable or not, and a load then returns None; with no file it changes
\* nothing; when os.remove raises the file stays; in all three cases the
\* caller goes on (a new scan at INIT, or COMPLETED and status 0), and a second
\* delete changes nothing more.
C15_Step ==
  (FreshStartStep \/ CompletionStep) =>
    /\ ckpt.file = "absent" => ckpt' = ckpt
    /\ (ckpt.file # "absent" /\ store.mode # "readonly") =>
         ckpt' = NoFile /\ LoadScanState(ckpt') = NoState
    /\ (ckpt.file # "absent" /\ store.mode = "readonly") => ckpt' = ckpt
    /\ DeleteScanState(ckpt') = ckpt'
    /\ FreshStartStep => st' = FreshState(args'.scan_directory, args'.output)
    /\ CompletionStep =>
         st'.current_scan_phase = "COMPLETED" /\ exit_code' = 0

C15_ClearIdempotent == [][C15_Step]_vars

\* A --fresh-start run whose delete failed in a read-only directory goes on
\* at INIT with the old checkpoint still there.
C15_Witness ==
  /\ pc = "L99" /\ args.fresh_start
  /\ found = "saved" /\ ckpt.file = "saved"
  /\ store.mode = "readonly"
  /\ st.current_scan_phase = "INIT"

\* The lists of records of a state, and whether a record is an archive member.
RecordLists(s) ==
  {s.processed_disk_files, s.zip_files_to_scan_info, s.files_from_zips_accumulator,
   s.all_files_to_check_for_duplicate_phase}
InContainer(f) == f.zip_parent_path # None

HasFingerprint(f) == f.hash_sha256 \notin {None, ""}
Carriers(files, h) == {files[k] : k \in {k \in DOMAIN files : files[k].hash_sha256 = h}}
PathsOf(records) == {f.path : f \in records}
Fingerprints(files) ==
  {files[k].hash_sha256 : k \in {k \in DOMAIN files : HasFingerprint(files[k])}}
Shared(files) == {h \in Fingerprints(files) : Cardinality(PathsOf(Carriers(files, h))) >= 2}
MembersOf(groups) == UNION {groups[k].files : k \in DOMAIN groups}

\* C17 (duplicate grouping correctness): find_duplicates returns exactly one
\* group per shared fingerprint and no other group; the key of a group is the
\* fingerprint, its members are input records carrying it and have exactly
\* the identities of the carriers; a record whose fingerprint no other record
\* carries is in no group.
C17_GroupingCorrect ==
  call.fn = "find_duplicates" =>
    LET files == call.arg
        groups == call.ret
    IN /\ {groups[k].id : k \in DOMAIN groups} = Shared(files)
       /\ Len(groups) = Cardinality(Shared(files))
       /\ \A k \in DOMAIN groups :
            /\ groups[k].files \subseteq Carriers(files, groups[k].id)
            /\ PathsOf(groups[k].files) = PathsOf(Carriers(files, groups[k].id))
       /\ \A j \in DOMAIN files :
            (\A k \in DOMAIN files \ {j} : files[k].hash_sha256 # files[j].hash_sha256)
              => files[j] \notin MembersOf(groups)

\* The records (f1, h1), (f2, h2), (f3, h1): one group, of key h1 and members
\* f1 and f3.
C17_Witness ==
  /\ call.fn = "find_duplicates"
  /\ Len(call.arg) = 3
  /\ call.arg[1].hash_sha256 = "h1" /\ call.arg[2].hash_sha256 = "h2" /\ call.arg[3].hash_sha256 = "h1"
  /\ call.arg[1].path = "f1" /\ call.arg[2].path = "f2" /\ call.arg[3].path = "f3"
  /\ Len(call.ret) = 1
  /\ call.ret[1].id = "h1"
  /\ call.ret[1].files = {call.arg[1], call.arg[3]}

\* Every group of a list has members of at least two identities.
NoSingleton(groups) ==
  \A k \in DOMAIN groups : Cardinality(PathsOf(groups[k].files)) >= 2

\* No two records of the list carry the same fingerprint.
AllDistinct(files) ==
  \A j, k \in DOMAIN files :
    (j # k /\ HasFingerprint(files[j])) => files[j].hash_sha256 # files[k].hash_sha256

\* C18 (singleton exclusion): every group find_duplicates returns, and every
\* group handed to generate_html_report by the pipeline, has at least two
\* members of distinct identities; a list whose fingerprints are all distinct
\* yields the empty list.
C18_SingletonExclusion ==
  /\ call.fn = "find_duplicates" =>
       /\ NoSingleton(call.ret)
       /\ AllDistinct(call.arg) => call.ret = <<>>
  /\ NoSingleton(duplicate_groups)
  /\ handed # <<>> => NoSingleton(handed[1])

\* Three records, two of them with the two digests and one without: no group.
C18_Witness ==
  /\ call.fn = "find_duplicates"
  /\ Len(call.arg) = 3
  /\ AllDistinct(call.arg)
  /\ Cardinality(Fingerprints(call.arg)) = 2
  /\ call.ret = <<>>

\* The list without its fingerprint-less records.
WithFingerprint(files) == SelectSeq(files, HasFingerprint)

\* C19 (unhashed records never participate): no member of a group lacks a
\* fingerprint, no group has an absent key, and the groups of a list are the
\* groups of the list without its fingerprint-less records.
C19_UnhashedExcluded ==
  call.fn = "find_duplicates" =>
    /\ \A f \in MembersOf(call.ret) : HasFingerprint(f)
    /\ \A k \in DOMAIN call.ret : call.ret[k].id \notin {None, ""}
    /\ call.ret = FindDuplicates(WithFingerprint(call.arg))

\* Two fingerprint-less records of different paths beside two records that
\* share a digest: one group, of the two hashed records.
C19_Witness ==
  /\ call.fn = "find_duplicates"
  /\ Len(call.arg) = 4
  /\ Cardinality(PathsOf({call.arg[k] : k \in {k \in 1..4 : ~HasFingerprint(call.arg[k])}})) = 2
  /\ Len(call.ret) = 1
  /\ Cardinality(call.ret[1].files) = 2

\* The list without the records that repeat the path and the fingerprint of
\* an earlier record.
RECURSIVE Dedup(_, _)
Dedup(files, seen) ==
  IF files = <<>> THEN <<>>
  ELSE LET key == <<Head(files).path, Head(files).hash_sha256>> IN
    IF key \in seen THEN Dedup(Tail(files), seen)
    ELSE <<Head(files)>> \o Dedup(Tail(files), seen \cup {key})

KeysAndPaths(groups) == {<<groups[k].id, PathsOf(groups[k].files)>> : k \in DOMAIN groups}

\* C20 (identity dedup): no group has two members of the same path; a
\* fingerprint whose carriers all share one path has no group; and the groups
\* of a list are, by key and identities, those of the list in which every
\* identity occurs once per fingerprint.
C20_IdentityDedup ==
  call.fn = "find_duplicates" =>
    /\ \A k \in DOMAIN call.ret :
         Cardinality(call.ret[k].files) = Cardinality(PathsOf(call.ret[k].files))
    /\ \A h \in Fingerprints(call.arg) :
         Cardinality(PathsOf(Carriers(call.arg, h))) = 1 =>
           \A k \in DOMAIN call.ret : call.ret[k].id # h
    /\ KeysAndPaths(call.ret) = KeysAndPaths(FindDuplicates(Dedup(call.arg, {})))

\* Two paths, each of them twice, all with one digest: one group, of two members.
C20_Witness ==
  /\ call.fn = "find_duplicates"
  /\ Len(call.arg) = 4
  /\ call.arg[1].path = call.arg[2].path /\ call.arg[1].hash_sha256 = "h1"
  /\ call.arg[2].hash_sha256 = "h1" /\ call.arg[3].hash_sha256 = "h1"
  /\ call.arg[3].path # call.arg[1].path
  /\ call.arg[4].hash_sha256 = "h1" /\ call.arg[4].path = call.arg[3].path
  /\ Len(call.ret) = 1
  /\ Cardinality(call.ret[1].files) = 2

\* Two records of the archive accumulator that are members of the same name
\* in two containers.
SameNameMembers(f, g) ==
  /\ f.is_in_zip /\ g.is_in_zip
  /\ f.path = g.path
  /\ f.zip_parent_path # g.zip_parent_path

\* C21 (archive members are not collapsed across containers): when two members
\* of the same name in different containers carry the same fingerprint, the
\* groups handed to the reporter hold a group of that fingerprint with both
\* of them as members.
C21_MembersNotCollapsed ==
  (handed # <<>> /\ st.current_scan_phase = "COMPLETED" /\ log.resumes = 0 /\ faults = 0) =>
    \A a, b \in DOMAIN st.files_from_zips_accumulator :
      LET f == st.files_from_zips_accumulator[a]
          g == st.files_from_zips_accumulator[b]
      IN (SameNameMembers(f, g) /\ HasFingerprint(f) /\ f.hash_sha256 = g.hash_sha256) =>
           \E k \in DOMAIN handed[1] :
             /\ handed[1][k].id = f.hash_sha256
             /\ f \in handed[1][k].files
             /\ g \in handed[1][k].files

\* C22 (symlink exclusion): a path of the disk work list that is a symbolic
\* link, whatever its target, has no record in the disk accumulator, has not
\* been hashed and has no entry in the error map.
C22_SymlinkExclusion ==
  HasState(st) =>
    \A k \in DOMAIN st.collected_file_paths_for_scan_phase :
      LET file_path == st.collected_file_paths_for_scan_phase[k] IN
        fs[file_path].islink =>
          /\ \A j \in DOMAIN st.processed_disk_files : st.processed_disk_files[j].path # file_path
          /\ \A j \in DOMAIN log.hashed : log.hashed[j] # file_path
          /\ file_path \notin DOMAIN st.scan_errors

\* The non-directory entries of a list, and whether reading or fingerprinting
\* an entry fails.
EntryFails(e) == ~e.reads \/ e.content = None
NonDirectory(es) == SelectSeq(es, LAMBDA e : ~e.is_dir)
Failing(es) == SelectSeq(NonDirectory(es), EntryFails)
Succeeding(es) == SelectSeq(NonDirectory(es), LAMBDA e : ~EntryFails(e))

\* C23 (archive partial failure): for an archive that opens and has n
\* non-directory entries of distinct names, f of them failing, expansion
\* returns n-f records, those of the entries that do not fail in the order of
\* the archive, and f error entries, one per failing entry under the key
\* container path, slash, entry name.
C23_PartialFailure ==
  (call.fn = "scan_single_zip_archive" /\ call.arg.file.is_zipfile /\ call.arg.file.opens) =>
    LET es == call.arg.file.entries
        zp == call.arg.zip_file_path
    IN /\ Len(call.ret.files) = Len(NonDirectory(es)) - Len(Failing(es))
       /\ Cardinality(DOMAIN call.ret.errors) = Len(Failing(es))
       /\ DOMAIN call.ret.errors = {<<zp, "/", Failing(es)[k].filename>> : k \in DOMAIN Failing(es)}
       /\ \A k \in DOMAIN call.ret.files :
            /\ call.ret.files[k].path = Succeeding(es)[k].filename
            /\ call.ret.files[k].hash_sha256 = Succeeding(es)[k].content

\* An archive of three members whose first does not read: the records of the
\* two after it, and one error entry.
C23_Witness ==
  /\ call.fn = "scan_single_zip_archive"
  /\ call.arg.file.opens
  /\ Len(call.arg.file.entries) = 3
  /\ ~call.arg.file.entries[1].is_dir /\ ~call.arg.file.entries[1].reads
  /\ ~EntryFails(call.arg.file.entries[2]) /\ ~call.arg.file.entries[2].is_dir
  /\ ~EntryFails(call.arg.file.entries[3]) /\ ~call.arg.file.entries[3].is_dir
  /\ Len(call.ret.files) = 2
  /\ Cardinality(DOMAIN call.ret.errors) = 1

\* The step of SCANNING_ZIPS that processes a unit whose file is readable and
\* fails the container-format check.
InvalidContainerUnit ==
  /\ pc = "zip_unit" /\ log'.zip # log.zip
  /\ fs[st.zip_files_to_scan_info[i + 1].path].access
  /\ ~fs[st.zip_files_to_scan_info[i + 1].path].is_zipfile

\* C24 (an invalid container is a normal outcome): the unit adds no record
\* and exactly one error entry, under the container path alone; nothing is
\* raised, the loop goes on at the next archive and the phase stays
\* SCANNING_ZIPS; when the loop ends the stored cursor is the length of the
\* work list, past the invalid container.
C24_Step ==
  /\ InvalidContainerUnit =>
       LET zp == st.zip_files_to_scan_info[i + 1].path IN
         /\ st'.files_from_zips_accumulator = st.files_from_zips_accumulator
         /\ DOMAIN st'.zip_scan_errors = DOMAIN st.zip_scan_errors \cup {<<zp>>}
         /\ \A key \in DOMAIN st.zip_scan_errors \ {<<zp>>} :
              st'.zip_scan_errors[key] = st.zip_scan_errors[key]
         /\ pc' = "zip_loop" /\ i' = i + 1
         /\ exit_code' = exit_code /\ faults' = faults
         /\ st'.current_scan_phase = "SCANNING_ZIPS"
         /\ st'.zip_files_to_scan_info = st.zip_files_to_scan_info
  /\ (pc = "zip_loop" /\ pc' = "L145" /\ ~pause_requested) =>
       st'.pending_zip_info_idx = Len(st.zip_files_to_scan_info)

C24_InvalidContainer == [][C24_Step]_vars

\* An archive of the work list was rewritten as a plain file while the scan
\* was paused; the resumed scan recorded one error for it, expanded the
\* archive after it and completed.
C24_Witness ==
  /\ st.current_scan_phase = "COMPLETED"
  /\ Len(st.zip_files_to_scan_info) = 2
  /\ st.zip_files_to_scan_info[1].path = "/r/b.zip"
  /\ ~fs["/r/b.zip"].is_zipfile /\ fs["/r/b.zip"].access
  /\ <<"/r/b.zip">> \in DOMAIN st.zip_scan_errors
  /\ st.pending_zip_info_idx = 2
  /\ st.files_from_zips_accumulator # <<>>
  /\ \A k \in DOMAIN st.files_from_zips_accumulator :
       st.files_from_zips_accumulator[k].zip_parent_path = "/r/c.zip"

\* Where the records of a state come from: a record of the archive
\* accumulator names as its container an archive of the archive work list, is
\* flagged as a member, and has the name and the uncompressed size of a
\* non-directory entry of that archive; a record of the disk accumulator has
\* no container and is not flagged.
Provenance(s, tree) ==
  /\ \A k \in DOMAIN s.files_from_zips_accumulator :
       LET f == s.files_from_zips_accumulator[k] IN
         /\ f.is_in_zip = TRUE
         /\ f.zip_parent_path # None
         /\ \E z \in DOMAIN s.zip_files_to_scan_info :
              s.zip_files_to_scan_info[z].path = f.zip_parent_path
         /\ \E z \in DOMAIN s.processed_disk_files :
              s.processed_disk_files[z].path = f.zip_parent_path
         /\ \E e \in DOMAIN tree[f.zip_parent_path].entries :
              LET member_info == tree[f.zip_parent_path].entries[e] IN
                /\ ~member_info.is_dir
                /\ member_info.filename = f.path
                /\ member_info.file_size = f.size
  /\ \A k \in DOMAIN s.processed_disk_files :
       LET f == s.processed_disk_files[k] IN
         /\ f.is_in_zip = FALSE
         /\ f.zip_parent_path = None
         /\ f.path \in Paths

\* C25 (record provenance): the state of the process, and the state a saved
\* checkpoint holds, satisfy Provenance in every reachable state.
C25_RecordProvenance ==
  /\ HasState(st) => Provenance(st, fs)
  /\ ckpt.file = "saved" => Provenance(Unpickle(ckpt.data), fs)

\* A resumed scan has expanded the archive with a directory entry and a
\* member that does not read, and holds records of both accumulators.
C25_Witness ==
  /\ HasState(st) /\ log.resumes >= 1
  /\ st.current_scan_phase = "FINDING_DUPLICATES"
  /\ \E k \in DOMAIN st.files_from_zips_accumulator :
       /\ fs[st.files_from_zips_accumulator[k].zip_parent_path] = ZipB
       /\ st.files_from_zips_accumulator[k].path = "z.txt"
  /\ Len(st.processed_disk_files) >= 2

\* The number of reads the loop makes on data of that length: one per block,
\* and the read that returns b''.
ReadsOf(bytes, block_size) == ((Len(bytes) + block_size - 1) \div block_size) + 1
ReadRaises(source, block_size) == source.fail_at \in 1..ReadsOf(source.bytes, block_size)

\* C26 (fingerprint determinism and agreement): when no read raises, the
\* fingerprint of a file and of a stream of the same bytes are both the
\* reference digest of the whole byte sequence, whatever the block size; when
\* a read (or, for the file, open) raises IOError the result is None.
C26_Fingerprint ==
  call.fn = "calculate_sha256" =>
    LET source == call.arg.source
        block_size == call.arg.block_size
    IN /\ ~ReadRaises(source, block_size) =>
            /\ call.ret.stream = ReferenceDigest(source.bytes)
            /\ source.opens => call.ret.file = ReferenceDigest(source.bytes)
            /\ source.opens => call.ret.file = call.ret.stream
            /\ \A size \in 1..MaxBlockSize :
                 ~ReadRaises(source, size) =>
                   CalculateSha256FromBytesBlocks(source, size) = call.ret.stream
       /\ ReadRaises(source, block_size) => call.ret.stream = None /\ call.ret.file = None
       /\ ~source.opens => call.ret.file = None
       /\ call.ret.stream \in {None} \cup {a \o b : a, b \in {HexDigits[n] : n \in DOMAIN HexDigits}}

\* Three bytes read in blocks of two (a full block, a short one, then b''):
\* both functions return the reference digest.
C26_Witness ==
  /\ call.fn = "calculate_sha256"
  /\ Len(call.arg.source.bytes) = 3 /\ call.arg.block_size = 2
  /\ call.arg.source.fail_at = 0 /\ call.arg.source.opens
  /\ call.ret.file = ReferenceDigest(call.arg.source.bytes)
  /\ call.ret.stream = call.ret.file
  /\ call.ret.file # ReferenceDigest(SubSeq(call.arg.source.bytes, 1, 2))

\* The result of unit k (counted from 0) of each work list is in the state:
\* a path has a record in the disk accumulator or an entry in the error map,
\* or is a symbolic link that was passed over; a record has its category; an
\* archive has an error entry of its own, or each of its members has a record
\* in the archive accumulator or an error entry.
DiskResultRecorded(s, tree, k) ==
  LET file_path == s.collected_file_paths_for_scan_phase[k + 1] IN
    \/ \E j \in DOMAIN s.processed_disk_files : s.processed_disk_files[j].path = file_path
    \/ file_path \in DOMAIN s.scan_errors
    \/ tree[file_path].islink
CategoryRecorded(s, k) == s.processed_disk_files[k + 1].file_type \notin {None, ""}
ArchiveResultRecorded(s, tree, k) ==
  LET zp == s.zip_files_to_scan_info[k + 1].path IN
    \/ <<zp>> \in DOMAIN s.zip_scan_errors
    \/ \A e \in DOMAIN tree[zp].entries :
         LET member_info == tree[zp].entries[e] IN
           \/ member_info.is_dir
           \/ <<zp, "/", member_info.filename>> \in DOMAIN s.zip_scan_errors
           \/ \E j \in DOMAIN s.files_from_zips_accumulator :
                /\ s.files_from_zips_accumulator[j].path = member_info.filename
                /\ s.files_from_zips_accumulator[j].zip_parent_path = zp

CursorsBehindResults(s, tree) ==
  /\ s.pending_file_paths_idx \in 0..Len(s.collected_file_paths_for_scan_phase)
  /\ \A k \in 0..(s.pending_file_paths_idx - 1) : DiskResultRecorded(s, tree, k)
  /\ s.classification_idx \in 0..Len(s.processed_disk_files)
  /\ \A k \in 0..(s.classification_idx - 1) : CategoryRecorded(s, k)
  /\ s.pending_zip_info_idx \in 0..Len(s.zip_files_to_scan_info)
  /\ \A k \in 0..(s.pending_zip_info_idx - 1) : ArchiveResultRecorded(s, tree, k)

\* C27 (the cursor never runs ahead of the results): in the state held by a
\* checkpoint, written by a pause or by the handler of an escaping exception,
\* every unit below each of the three cursors has its result recorded.
C27_CursorNeverAhead ==
  ckpt.file = "saved" => CursorsBehindResults(Unpickle(ckpt.data), fs)

\* An exception escaped SCANNING_ZIPS of a resumed scan after a first archive
\* was expanded: the checkpoint of the handler holds the records of that
\* archive and a cursor that does not count it.
C27_Witness ==
  /\ pc = "idle" /\ exit_code = 1 /\ faults = 1
  /\ ckpt.file = "saved"
  /\ Unpickle(ckpt.data).current_scan_phase = "SCANNING_ZIPS"
  /\ Unpickle(ckpt.data).files_from_zips_accumulator # <<>>
  /\ Unpickle(ckpt.data).pending_zip_info_idx = 0
  /\ Unpickle(ckpt.data).classification_idx = 2
  /\ Unpickle(ckpt.data).pending_file_paths_idx = 3
  /\ log.resumes >= 1

\* C28 (the disk work list is materialized once): once a scan has run the
\* path enumeration, no step of a process of that scan runs it again or
\* changes the stored work list.
C28_Step ==
  (pc # "idle" /\ log.walks >= 1) =>
    /\ log'.walks = log.walks
    /\ st'.collected_file_paths_for_scan_phase = st.collected_file_paths_for_scan_phase

C28_MaterializedOnce == [][C28_Step]_vars

\* The records of the disk accumulator that name an archive: extension .zip
\* and a file that zipfile.is_zipfile accepts, in accumulator order.
ArchiveRecords(s, tree) ==
  SelectSeq(s.processed_disk_files,
            LAMBDA f : f.extension = ".zip" /\ tree[f.path].is_zipfile)

\* C29 (the archive work list is materialized once): over the invocations of
\* one scan the archive work list is built at most once, also when it is
\* empty; the step that builds it stores exactly the archive records of the
\* disk accumulator, in order, with cursor 0; no other step of a process
\* changes it, and an invocation that enters SCANNING_ZIPS with the list built
\* continues from the stored cursor.
C29_Step ==
  /\ log'.zip_collects <= 1
  /\ (pc # "idle" /\ log'.zip_collects # log.zip_collects) =>
       /\ st'.zip_files_to_scan_info = ArchiveRecords(st, fs)
       /\ st'.pending_zip_info_idx = 0
  /\ (pc # "idle" /\ log'.zip_collects = log.zip_collects /\ log.zip_collects >= 1) =>
       st'.zip_files_to_scan_info = st.zip_files_to_scan_info
  /\ (pc = "L141" /\ pc' = "zip_loop" /\ log.zip_collects >= 1) =>
       /\ st'.pending_zip_info_idx = st.pending_zip_info_idx
       /\ i' = st.pending_zip_info_idx

C29_MaterializedOnce == [][C29_Step]_vars

\* A third invocation of one scan is in SCANNING_ZIPS: the list was built by
\* an earlier one from a disk accumulator with two .zip records, one of them
\* not an archive, and the loop continues behind the only unit of the list.
C29_Witness ==
  /\ pc = "zip_loop" /\ log.resumes >= 2 /\ log.zip_collects = 1
  /\ Len(SelectSeq(st.processed_disk_files, LAMBDA f : f.extension = ".zip")) = 2
  /\ Len(st.zip_files_to_scan_info) = 1
  /\ st.pending_zip_info_idx = 1 /\ i = 1

\* The step in which a phase loop starts on its next unit: a path of the disk
\* work list, a record to classify, an archive to expand.
UnitBegins ==
  \/ pc = "disk_loop" /\ pc' = "disk_unit"
  \/ pc = "cls_loop" /\ pc' = "cls_check"
  \/ pc = "zip_loop" /\ pc' = "zip_unit"

\* C30 (cancellation takes effect only between units): no unit of SCANNING_DISK,
\* CLASSIFYING or SCANNING_ZIPS begins once the cancellation flag is set.
C30_Step == UnitBegins => ~pause_requested

C30_NoUnitAfterFlag == [][C30_Step]_vars

\* SCANNING_DISK has completed in state s: the phase tag is a later one.
DiskScanCompleted(s) ==
  s.current_scan_phase \in {"CLASSIFYING", "SCANNING_ZIPS", "FINDING_DUPLICATES",
                            "REPORTING", "COMPLETED"}
RecordsOf(s, file_path) ==
  {j \in DOMAIN s.processed_disk_files : s.processed_disk_files[j].path = file_path}

\* The class of a path of the work list: one record and no error entry, for a
\* readable file that was hashed; or an error entry and no record, for a path
\* that is unreadable or whose hash could not be obtained; or neither, for a
\* symbolic link that was passed over.
InOneClass(s, tree, file_path) ==
  LET n == Cardinality(RecordsOf(s, file_path))
      e == file_path \in DOMAIN s.scan_errors
  IN \/ /\ n = 1 /\ ~e
        /\ tree[file_path].access /\ ~tree[file_path].islink
        /\ CalculateSha256(tree, file_path) # None
     \/ /\ n = 0 /\ e
        /\ ~tree[file_path].access \/ CalculateSha256(tree, file_path) = None
     \/ /\ n = 0 /\ ~e
        /\ tree[file_path].islink

\* C31 (per-item errors never abort SCANNING_DISK): once SCANNING_DISK has
\* completed, every path of the work list is in exactly one of the three
\* classes and every unit of the work list was processed; and at all times no
\* unreadable path was hashed.
C31_PerItemErrors ==
  /\ \A k \in DOMAIN log.hashed : fs[log.hashed[k]].access
  /\ DiskScanCompleted(st) =>
       /\ \A k \in DOMAIN st.collected_file_paths_for_scan_phase :
            /\ InOneClass(st, fs, st.collected_file_paths_for_scan_phase[k])
            /\ \E j \in DOMAIN log.disk : log.disk[j] = k - 1

\* Record b is record a, but for what the classifier fills in.
SameFile(a, b) ==
  /\ a.path = b.path /\ a.size = b.size /\ a.hash_sha256 = b.hash_sha256
  /\ a.extension = b.extension
  /\ a.is_in_zip = b.is_in_zip /\ a.zip_parent_path = b.zip_parent_path
\* Accumulator t is accumulator s with records appended.
GrownByAppending(s, t) ==
  /\ Len(s) <= Len(t)
  /\ \A k \in DOMAIN s : SameFile(s[k], t[k])

\* State t continues state s: no cursor went back, every cursor is within
\* its work list, the accumulators grew by appending, the error maps kept
\* their keys.
Monotone(s, t) ==
  /\ s.pending_file_paths_idx <= t.pending_file_paths_idx
  /\ t.pending_file_paths_idx \in 0..Len(t.collected_file_paths_for_scan_phase)
  /\ s.classification_idx <= t.classification_idx
  /\ t.classification_idx \in 0..Len(t.processed_disk_files)
  /\ s.pending_zip_info_idx <= t.pending_zip_info_idx
  /\ t.pending_zip_info_idx \in 0..Len(t.zip_files_to_scan_info)
  /\ GrownByAppending(s.processed_disk_files, t.processed_disk_files)
  /\ GrownByAppending(s.files_from_zips_accumulator, t.files_from_zips_accumulator)
  /\ DOMAIN s.scan_errors \subseteq DOMAIN t.scan_errors
  /\ DOMAIN s.zip_scan_errors \subseteq DOMAIN t.zip_scan_errors

\* C32 (monotone state): from one state of a scan to the next, without a
\* fresh start, cursors do not decrease and stay within their work lists,
\* accumulators grow by appending and error maps keep their keys: in every
\* step of a process, from the state of the process to the checkpoint a
\* pause or an error save writes, and from the checkpoint, and from the state
\* the invocation before ended in, to the state a resume loads.
C32_Step ==
  /\ (pc # "idle" /\ HasState(st) /\ HasState(st')) => Monotone(st, st')
  /\ (pc # "idle" /\ ckpt' # ckpt /\ ckpt'.file = "saved") =>
       Monotone(st, Unpickle(ckpt'.data))
  /\ (pc = "idle" /\ ckpt.file = "saved" /\ HasState(st')
        /\ args'.resume /\ ~args'.fresh_start /\ log'.resumes >= 1) =>
       /\ Monotone(Unpickle(ckpt.data), st')
       /\ HasState(st) => Monotone(st, st')

C32_MonotoneState == [][C32_Step]_vars

\* A resumed scan has expanded an archive: cursors of all three loops have
\* advanced, both accumulators hold records and the error map has an entry.
C32_Witness ==
  /\ pc = "zip_loop" /\ log.resumes >= 1 /\ i >= 1
  /\ st.pending_file_paths_idx >= 2 /\ st.classification_idx >= 1
  /\ st.processed_disk_files # <<>> /\ st.files_from_zips_accumulator # <<>>
  /\ DOMAIN st.scan_errors # {}

\* What the phase tag of state s promises about the fields of the phases
\* before it.
PhaseConsistent(s) ==
  /\ AtOrAfter(s, "CLASSIFYING") =>
       s.pending_file_paths_idx = Len(s.collected_file_paths_for_scan_phase)
  /\ AtOrAfter(s, "SCANNING_ZIPS") =>
       /\ s.classification_idx = Len(s.processed_disk_files)
       /\ \A k \in DOMAIN s.processed_disk_files : Truthy(s.processed_disk_files[k].file_type)
  /\ AtOrAfter(s, "FINDING_DUPLICATES") =>
       /\ s.zip_files_to_scan_info_collected
       /\ s.pending_zip_info_idx = Len(s.zip_files_to_scan_info)

\* C33 (phase and fields are consistent): in every state of a process and in
\* every checkpoint, a phase tag of CLASSIFYING or later goes with a disk
\* cursor at the end of the disk work list, a tag of SCANNING_ZIPS or later
\* with a classification cursor at the end of the disk accumulator and a
\* category on every disk record, a tag of FINDING_DUPLICATES or later with a
\* materialized archive work list and an archive cursor at its end.  The
\* checkpoint file holds nothing at the start and changes only when it is
\* written, damaged or deleted: every checkpoint is one some step wrote.
C33_Written ==
  (ckpt' # ckpt /\ ckpt'.file = "saved") => PhaseConsistent(Unpickle(ckpt'.data))

C33_PhaseConsistent ==
  /\ [](HasState(st) => PhaseConsistent(st))
  /\ [][C33_Written]_vars

\* A scan paused after FINDING_DUPLICATES: the checkpoint carries that tag,
\* classified disk records and a non-empty archive work list.
C33_Witness ==
  /\ pc = "idle" /\ ckpt.file = "saved"
  /\ Unpickle(ckpt.data).current_scan_phase = "FINDING_DUPLICATES"
  /\ Unpickle(ckpt.data).zip_files_to_scan_info # <<>>
  /\ Unpickle(ckpt.data).processed_disk_files # <<>>

\* The step in which classify_file is called, for record k (counted from 0)
\* of the disk accumulator.
ClassifierInvoked(k) ==
  /\ pc = "cls_loop"
  /\ log'.classified = Append(log.classified, k)

\* C34 (classification is resumable without rework): over pauses and resumes
\* the classifier is called at most once for each record of the disk
\* accumulator and only for a record without a category, which has one
\* afterwards; the checkpoint of a pause during CLASSIFYING stores as cursor
\* the number of records examined; and when the phase is left for
\* SCANNING_ZIPS every record of the disk accumulator has a category.
C34_Step ==
  /\ \A k \in 0..(Len(st.processed_disk_files) - 1) :
       ClassifierInvoked(k) =>
         /\ \A j \in DOMAIN log.classified : log.classified[j] # k
         /\ ~Truthy(st.processed_disk_files[k + 1].file_type)
         /\ Truthy(st'.processed_disk_files[k + 1].file_type)
  /\ log'.classified # log.classified =>
       \E k \in 0..(Len(st.processed_disk_files) - 1) : ClassifierInvoked(k)
  /\ (pc = "L137" /\ pause_requested /\ ckpt' # ckpt /\ ckpt'.file = "saved") =>
       /\ Unpickle(ckpt'.data).current_scan_phase = "CLASSIFYING"
       /\ Unpickle(ckpt'.data).classification_idx = Len(log.cls)
  /\ (pc = "L137" /\ st'.current_scan_phase = "SCANNING_ZIPS") =>
       \A k \in DOMAIN st'.processed_disk_files : Truthy(st'.processed_disk_files[k].file_type)

C34_ClassifyOnce == [][pc # "idle" => C34_Step]_vars

\* A scan paused in CLASSIFYING after its first record was resumed and has
\* classified the second.
C34_Witness ==
  /\ pc = "cls_check" /\ log.resumes >= 1
  /\ ckpt.file = "saved"
  /\ Unpickle(ckpt.data).current_scan_phase = "CLASSIFYING"
  /\ Unpickle(ckpt.data).classification_idx = 1
  /\ st.classification_idx = 2
  /\ log.classified = <<0, 1>>

\* The step writes the checkpoint file (save_scan_state opened it for
\* writing): the file differs and is not gone or damaged from outside.
CheckpointWritten == ckpt' # ckpt /\ ckpt'.file \in {"saved", "truncated"}
\* The step is the handler of a cancellation, or of an escaping exception.
CancellationHandled == pc # "idle" /\ pc' = "idle" /\ pause_requested /\ exit_code' = 0
ErrorHandled == pc # "idle" /\ pc' = "idle" /\ faults' = faults + 1 /\ exit_code' = 1

\* C35 (checkpoints are written only on cancellation or error): the checkpoint
\* file is written only in the step of the cancellation handler or of the
\* handler of an escaping exception; a step of a process that moves the phase
\* tag to the next phase writes nothing, nor does the end of a run that was
\* neither cancelled nor aborted; and a written checkpoint never carries the
\* tag INIT or COMPLETED.
C35_Step ==
  /\ CheckpointWritten =>
       /\ CancellationHandled \/ ErrorHandled
       /\ ckpt'.file = "saved" =>
            Unpickle(ckpt'.data).current_scan_phase \notin {"INIT", "COMPLETED"}
  /\ (pc # "idle" /\ st'.current_scan_phase # st.current_scan_phase) =>
       ckpt' \in {ckpt, NoFile}
  /\ (pc # "idle" /\ pc' = "idle" /\ ~pause_requested /\ faults' = faults) =>
       ckpt' \in {ckpt, NoFile}

C35_SavedOnlyOnHandlers == [][C35_Step]_vars

\* A run started with no checkpoint file has gone through every phase up to
\* REPORTING, with records in both accumulators, and there is still no file.
C35_Witness ==
  /\ pc = "L197" /\ st.current_scan_phase = "REPORTING"
  /\ log.resumes = 0 /\ found = "absent"
  /\ ckpt.file = "absent"
  /\ st.processed_disk_files # <<>> /\ st.files_from_zips_accumulator # <<>>

\* The fingerprints of the model in the order of their hexadecimal strings.
FingerprintOrder == <<"h0", "h1", "h2", "hA", "hB", "hC">>
FingerprintRank(h) == CHOOSE n \in DOMAIN FingerprintOrder : FingerprintOrder[n] = h

\* C36 (deterministic group order): the groups find_duplicates returns are in
\* increasing order of their fingerprint.
C36_GroupsSorted ==
  call.fn = "find_duplicates" =>
    \A a, b \in DOMAIN call.ret :
      a < b => FingerprintRank(call.ret[a].id) < FingerprintRank(call.ret[b].id)

====
